---- MODULE Spec2Model ----
(***************************************************************************)
(* Model of paisanos-cli: the setup command (cmd/setup.go).  SetupCmd.Run  *)
(* checks the platform, runs the editor selection list, builds the list of *)
(* steps from the live environment and hands it to setupModel, a Bubble    *)
(* Tea model whose Init/Update run the steps one at a time.                *)
(*                                                                         *)
(* Strings the code takes apart (HasPrefix, Contains, ==) are sequences of *)
(* tokens; a Go string literal is the sequence of its tokens.              *)
(***************************************************************************)
EXTENDS Bags, FiniteSets, Integers, Sequences, TLC

\* ------------------------------------------------------------------
\* Program constants
\* ------------------------------------------------------------------

\* setup.go:45-48
normalInstallations == <<"neovim", "fnm">>

\* setup.go:50-55
caskInstallations == <<"figma", "notion", "slack", "google-chrome">>

\* setup.go:267-271, the items of the editor selection list
editorItems == <<"neovim", "cursor.ai", "vscode">>

\* number of frames of spinner.Line, the spinner newSetupModel selects
LineFrames == 4

\* keys the editor list reacts to; "other" stands for every other key
EditorKeys == {"up", "down", "enter", "q", "ctrl+c", "other"}

\* every existence query SetupCmd.Run can issue (argument vectors of brew)
AllQueries ==
    { <<"list", normalInstallations[i]>> : i \in 1..Len(normalInstallations) }
    \cup { <<"list", "--cask", caskInstallations[i]>> : i \in 1..Len(caskInstallations) }
    \cup { <<"list", "--cask", "visual-studio-code">>, <<"list", "--cask", "cursor">> }

VARIABLES
    goos,          \* runtime.GOOS
    userOK,        \* user.Current() succeeds
    brewPresent,   \* exec.LookPath("brew") succeeds
    listOK,        \* the brew list argument vectors that exit zero
    chromeApp,     \* /Applications/Google Chrome.app exists
    colorOn,       \* the terminal colour profile makes lipgloss emit ANSI codes
    pc,            \* position of SetupCmd.Run
    editorIndex,   \* editorModel.list cursor
    choice,        \* editorModel.choice
    quitting,      \* editorModel.quitting
    editorQuit,    \* the editor program has a tea.Quit command pending
    steps,         \* setupModel.steps
    currentStep,   \* setupModel.currentStep
    done,          \* setupModel.done
    err,           \* setupModel.err
    frame,         \* setupModel.spinner frame
    cmds,          \* bag of tea.Cmd running in the background
    launched,      \* history: step indexes passed to runCommand, in order
    completed,     \* history: commandResultMsg processed by Update, in order
    lastEvent,     \* history: the kind of the last message Update processed
    queries,       \* history: existence queries run while building the plan
    printed,       \* history: lines written with fmt.Println / fmt.Printf
    execs,         \* history: external processes the step commands ran, in order
    exitStatus,    \* exit status of the process, -1 while running
    pkgInput,      \* the packages handed to InitialModelPkgManager
    packages,      \* package-manager model.packages
    pkgIndex,      \* model.index
    pkgDone,       \* model.done
    exitFlag,      \* *model.exit, the Exit field of the Project
    size,          \* model.width and model.height
    percent,       \* model.progress target, as <<numerator, denominator>>
    pkgFrame,      \* model.spinner frame
    pkgPc,         \* position of the package-manager program
    pkgCmds,       \* bag of tea.Cmd of the package-manager program in the background
    pkgLaunched,   \* history: packages passed to downloadAndInstall by Init and Update
    pkgCompleted,  \* history: completion messages processed by Update
    pkgExecs,      \* history: brew invocations made by downloadAndInstall
    pkgPrinted,    \* history: lines printed through tea.Printf
    pkgFailures,   \* history: installErrorMsg messages handed to Update
    osUser,        \* the user user.Current() resolves, for Project.Run
    projPc,        \* position of Project.Run
    OSCheck,       \* Project.OSCheck, the keys mapped to true
    EditorMap,     \* Project.EditorMap
    Username,      \* Project.Username
    HomeDir,       \* Project.HomeDir
    projErr,       \* the error Project.Run returned
    selPc,         \* position of the selection program (multiInput)
    selChoices,    \* multiInput model.choices
    selCursor,     \* multiInput model.cursor
    selSelected,   \* multiInput model.selected, the keys of the map
    selChoice,     \* Selection.Choice
    selQuit,       \* the selection program has a tea.Quit pending
    animPc,        \* position of the flag animation program
    currentFrame,  \* flag model.currentFrame
    phase,         \* flag model.phase
    typewriterIndex, \* flag model.typewriterIndex
    messages,      \* flag model.messages
    currentMessage, \* flag model.currentMessage
    waited,        \* text ticks handled since waitStart was set
    animExit,      \* *model.exit of the flag model
    animCmds,      \* bag of tea.Cmd of the flag animation in the background
    phases         \* history: <<phase, currentMessage>> each time one of them changed

envVars == <<goos, userOK, brewPresent, listOK, chromeApp, colorOn>>
editorVars == <<editorIndex, choice, quitting, editorQuit>>
modelVars == <<steps, currentStep, done, err, frame>>
histVars == <<launched, completed, lastEvent, queries, printed, execs>>
setupVars == <<pc, editorVars, modelVars, cmds, histVars, exitStatus>>
pkgModelVars == <<pkgInput, packages, pkgIndex, pkgDone, exitFlag, size, percent, pkgFrame>>
pkgHistVars == <<pkgLaunched, pkgCompleted, pkgExecs, pkgPrinted, pkgFailures>>
pkgVars == <<pkgModelVars, pkgPc, pkgCmds, pkgHistVars>>
projVars == <<osUser, projPc, OSCheck, EditorMap, Username, HomeDir, projErr>>
selVars == <<selPc, selChoices, selCursor, selSelected, selChoice, selQuit>>
animVars == <<animPc, currentFrame, phase, typewriterIndex, messages, currentMessage, waited,
              animExit, animCmds, phases>>
uiVars == <<projVars, selVars, animVars>>
vars == <<envVars, setupVars, pkgVars, uiVars>>

\* ------------------------------------------------------------------
\* Strings
\* ------------------------------------------------------------------

\* strings.HasPrefix
HasPrefix(s, p) == Len(s) >= Len(p) /\ SubSeq(s, 1, Len(p)) = p

\* strings.Contains for a one-token needle
Contains(s, tok) == \E i \in 1..Len(s) : s[i] = tok

\* strings.TrimPrefix
TrimPrefix(s, p) == IF HasPrefix(s, p) THEN SubSeq(s, Len(p) + 1, Len(s)) ELSE s

\* strings.TrimSuffix
TrimSuffix(s, p) ==
    IF Len(s) >= Len(p) /\ SubSeq(s, Len(s) - Len(p) + 1, Len(s)) = p
    THEN SubSeq(s, 1, Len(s) - Len(p)) ELSE s

\* lipgloss.NewStyle().Foreground(c).Render: wraps the text in ANSI colour
\* codes unless the colour profile is plain
Render(color, s) == IF colorOn THEN <<"ESC[38;5;", color, "m">> \o s \o <<"ESC[0m">> ELSE s

\* setup.go:58-60
installingDescription(pkg) == Render("44", <<"Instalando ", pkg, "...">>)

\* setup.go:62-64
alreadyInstalled(pkg) == Render("246", <<"■ ", pkg, " ya se encuentra instalado.">>)

\* setup.go:178-180
successfullyInstalled(pkg) == Render("29", <<"■ ">> \o pkg \o <<" se instaló correctamente.">>)

\* ------------------------------------------------------------------
\* Environment queries
\* ------------------------------------------------------------------

\* exec.Command("brew", args...).Run() == nil
BrewListRuns(args) == brewPresent /\ args \in listOK

\* setup.go:173-176, for the only path the program asks about
fileExists(path) == path = "/Applications/Google Chrome.app" /\ chromeApp

\* ------------------------------------------------------------------
\* Plan building (SetupCmd.Run, setup.go:322-481)
\* ------------------------------------------------------------------

\* setup.go:70-74
step(description, command, args) ==
    [description |-> description, command |-> command, args |-> args]

\* setup.go:343
profilePath == <<"HOME", "/.zprofile">>

\* setup.go:351-371, the three steps appended when brew is not found
bootstrapSteps ==
    << step(<<"Instalando ", "Homebrew", "...">>, "/bin/bash",
            <<"-c", "$(curl -fsSL https://raw.githubusercontent.com/Homebrew/install/HEAD/install.sh)">>),
       step(<<"Configurando ", "Homebrew", "...">>, "/bin/bash",
            <<"-c", "(echo; echo 'eval \"$(/opt/homebrew/bin/brew shellenv)\"') >> ">> \o profilePath),
       step(<<"Evaluando entorno de ", "Homebrew", "...">>, "/bin/bash",
            <<"-c", "eval \"$(/opt/homebrew/bin/brew shellenv)\"">>) >>

\* the builder's locals before line 345; selected comes from lines 323-331
buildStart(selected) ==
    [steps |-> <<>>, brewInstalled |-> FALSE, selected |-> selected,
     queries |-> <<>>, printed |-> <<>>]

\* checkHomebrew with the bootstrap steps appended whatever the lookup says
checkHomebrew_AlwaysBootstrap(b) ==
    LET q == [b EXCEPT !.queries = Append(@, <<"lookpath", "brew">>)] IN
    IF ~brewPresent
    THEN [q EXCEPT !.steps = @ \o bootstrapSteps]
    ELSE [q EXCEPT !.brewInstalled = TRUE, !.steps = @ \o bootstrapSteps,
                   !.printed = Append(@, <<"Homebrew ya se encuentra instalada, saltando instalación.">>)]

\* setup.go:349-375
checkHomebrew(b) ==
    LET q == [b EXCEPT !.queries = Append(@, <<"lookpath", "brew">>)] IN
    IF ~brewPresent
    THEN [q EXCEPT !.steps = @ \o bootstrapSteps]
    ELSE [q EXCEPT !.brewInstalled = TRUE,
                   !.printed = Append(@, <<"Homebrew ya se encuentra instalada, saltando instalación.">>)]

\* appendInstall putting the new step in front of the steps built so far
appendInstall_Prepends(b, name, installArgs) ==
    [b EXCEPT !.steps = <<step(installingDescription(name), "brew", installArgs)>> \o @]

\* the append of an install step (setup.go:386-390 and its copies)
appendInstall(b, name, installArgs) ==
    [b EXCEPT !.steps = Append(@, step(installingDescription(name), "brew", installArgs))]

\* queryThenInstall with the result of the query ignored
queryThenInstall_IgnoresQuery(b, name, listArgs, installArgs) ==
    appendInstall([b EXCEPT !.queries = Append(@, listArgs)], name, installArgs)

\* queryThenInstall that skips a listed entry without printing the notice
queryThenInstall_Silent(b, name, listArgs, installArgs) ==
    LET q == [b EXCEPT !.queries = Append(@, listArgs)] IN
    IF ~BrewListRuns(listArgs)
    THEN appendInstall(q, name, installArgs)
    ELSE q

\* queryThenInstall with the test of the query's error inverted
queryThenInstall_Inverted(b, name, listArgs, installArgs) ==
    LET q == [b EXCEPT !.queries = Append(@, listArgs)] IN
    IF BrewListRuns(listArgs)
    THEN appendInstall(q, name, installArgs)
    ELSE [q EXCEPT !.printed = Append(@, alreadyInstalled(name))]

\* if err := exec.Command("brew", listArgs...).Run(); err != nil { append }
\* else { Println(alreadyInstalled) }  (setup.go:385-393 and its copies)
queryThenInstall(b, name, listArgs, installArgs) ==
    LET q == [b EXCEPT !.queries = Append(@, listArgs)] IN
    IF ~BrewListRuns(listArgs)
    THEN appendInstall(q, name, installArgs)
    ELSE [q EXCEPT !.printed = Append(@, alreadyInstalled(name))]

\* setup.go:384-400, 443-460, 464-480: query only when brew was found
installUnlessListed(b, name, listArgs, installArgs) ==
    IF b.brewInstalled
    THEN queryThenInstall(b, name, listArgs, installArgs)
    ELSE appendInstall(b, name, installArgs)

\* formulaIteration without the test that leaves out an unselected neovim
formulaIteration_NoSelectionTest(b, pkg) ==
    installUnlessListed(b, pkg, <<"list", pkg>>, <<"install", pkg>>)

\* setup.go:378-401, one iteration of the formula loop
formulaIteration(b, pkg) ==
    IF pkg = "neovim" /\ b.selected # "neovim"
    THEN [b EXCEPT !.printed = Append(@, <<"Omitiendo la instalación de neovim, no se seleccionó.">>)]
    ELSE installUnlessListed(b, pkg, <<"list", pkg>>, <<"install", pkg>>)

\* caskIteration with the bundle check made before the brew test
caskIteration_StatFirst(b, pkg) ==
    IF pkg = "google-chrome" /\ fileExists("/Applications/Google Chrome.app")
    THEN [b EXCEPT !.queries = Append(@, <<"stat", "/Applications/Google Chrome.app">>),
                   !.printed = Append(@, alreadyInstalled(pkg))]
    ELSE installUnlessListed(b, pkg, <<"list", "--cask", pkg>>, <<"install", "--cask", pkg>>)

\* setup.go:404-439, one iteration of the cask loop
caskIteration(b, pkg) ==
    IF b.brewInstalled
    THEN IF pkg = "google-chrome"
         THEN LET q == [b EXCEPT !.queries = Append(@, <<"stat", "/Applications/Google Chrome.app">>)] IN
              IF fileExists("/Applications/Google Chrome.app")
              THEN [q EXCEPT !.printed = Append(@, alreadyInstalled(pkg))]
              ELSE queryThenInstall(q, pkg, <<"list", "--cask", pkg>>, <<"install", "--cask", pkg>>)
         ELSE queryThenInstall(b, pkg, <<"list", "--cask", pkg>>, <<"install", "--cask", pkg>>)
    ELSE appendInstall(b, pkg, <<"install", "--cask", pkg>>)

RECURSIVE formulaLoop(_, _)
\* setup.go:378, for _, pkg := range normalInstallations, from index i
formulaLoop(b, i) ==
    IF i > Len(normalInstallations) THEN b
    ELSE formulaLoop(formulaIteration(b, normalInstallations[i]), i + 1)

RECURSIVE caskLoop(_, _)
\* setup.go:404, for _, pkg := range caskInstallations, from index i
caskLoop(b, i) ==
    IF i > Len(caskInstallations) THEN b
    ELSE caskLoop(caskIteration(b, caskInstallations[i]), i + 1)

\* vscodePart without the test of the selection
vscodePart_Unconditional(b) ==
    installUnlessListed(b, "vscode", <<"list", "--cask", "visual-studio-code">>,
                        <<"install", "--cask", "visual-studio-code">>)

\* setup.go:442-461
vscodePart(b) ==
    IF b.selected = "vscode"
    THEN installUnlessListed(b, "vscode", <<"list", "--cask", "visual-studio-code">>,
                             <<"install", "--cask", "visual-studio-code">>)
    ELSE b

\* setup.go:463-481
cursorPart(b) ==
    IF b.selected = "cursor.ai"
    THEN installUnlessListed(b, "cursor.ai", <<"list", "--cask", "cursor">>,
                             <<"install", "--cask", "cursor">>)
    ELSE b

\* setup.go:345-481, the whole builder for an editor choice
buildSteps(editorChoice) ==
    cursorPart(vscodePart(caskLoop(formulaLoop(checkHomebrew(buildStart(editorChoice)), 1), 1)))

\* ------------------------------------------------------------------
\* Messages and commands
\* ------------------------------------------------------------------

\* a nil error
Nil == [isNil |-> TRUE, description |-> <<>>, output |-> -1]

\* setup.go:153, the error runCommand wraps: the description of the step it
\* was given and the combined output of the process it ran for index
commandError(s, index) == [isNil |-> FALSE, description |-> s.description, output |-> index]

\* setup.go:143-158, the command value: the step it captured and its index
runCommand(s, index) == [kind |-> "step", stepIndex |-> index, s |-> s]

\* commandEnv adding the variable to every step that mentions Homebrew
commandEnv_AnyHomebrew(s) ==
    IF Contains(s.description, "Homebrew") THEN <<"NONINTERACTIVE=1">> ELSE <<>>

\* setup.go:145-148, what runCommand appends to os.Environ() for a step
commandEnv(s) ==
    IF s.description = <<"Instalando ", "Homebrew", "...">> THEN <<"NONINTERACTIVE=1">> ELSE <<>>

\* setup.go:144-149, the one process a step command runs: exec.Command with
\* the step's command and arguments, run once by CombinedOutput
process(c) ==
    [stepIndex |-> c.stepIndex, command |-> c.s.command, args |-> c.s.args, env |-> commandEnv(c.s)]

\* spinner.Tick and the tea.Tick the spinner schedules after each frame
tickCmd == [kind |-> "tick", stepIndex |-> -1, s |-> <<>>]

\* tea.Quit
quitCmd == [kind |-> "quit", stepIndex |-> -1, s |-> <<>>]

\* setup.go:76-79, the message a finished runCommand sends
commandResultMsg(c, failed) ==
    [kind |-> "result", stepIndex |-> c.stepIndex,
     err |-> IF failed THEN commandError(c.s, c.stepIndex) ELSE Nil]

\* spinner.TickMsg
tickMsg == [kind |-> "tick", stepIndex |-> -1, err |-> Nil]

\* any other message the runtime delivers (tea.KeyMsg, tea.WindowSizeMsg)
otherMsg == [kind |-> "other", stepIndex |-> -1, err |-> Nil]

\* the tea.KeyMsg of ctrl+c, the user's interrupt
interruptMsg == [kind |-> "key", stepIndex |-> -1, err |-> Nil]

\* the runtime starts a command in its own goroutine; tea.Quit is kept once,
\* the first QuitMsg ends the loop whatever their number
Start(bag, c) == IF c = quitCmd /\ BagIn(quitCmd, bag) THEN bag ELSE bag (+) SetToBag({c})

\* the step commands in flight
StepsInFlight == { c \in BagToSet(cmds) : c.kind = "step" }

\* number of step commands in flight
InFlight == BagCardinality([c \in StepsInFlight |-> cmds[c]])

\* ------------------------------------------------------------------
\* State machine
\* ------------------------------------------------------------------

\* the package-manager program is not part of the run
PkgIdle ==
    /\ pkgInput = <<>>
    /\ packages = <<>>
    /\ pkgIndex = 0
    /\ pkgDone = FALSE
    /\ exitFlag = FALSE
    /\ size = <<0, 0>>
    /\ percent = <<0, 1>>
    /\ pkgFrame = 0
    /\ pkgPc = "idle"
    /\ pkgCmds = EmptyBag
    /\ pkgLaunched = <<>>
    /\ pkgCompleted = <<>>
    /\ pkgExecs = <<>>
    /\ pkgPrinted = <<>>
    /\ pkgFailures = <<>>

\* Project.Run is not part of the run
ProjIdle ==
    /\ osUser = [Username |-> "", HomeDir |-> ""]
    /\ projPc = "idle"
    /\ OSCheck = {}
    /\ EditorMap = {}
    /\ Username = ""
    /\ HomeDir = ""
    /\ projErr = ""

\* the selection program is not part of the run
SelIdle ==
    /\ selPc = "idle"
    /\ selChoices = <<>>
    /\ selCursor = 0
    /\ selSelected = {}
    /\ selChoice = ""
    /\ selQuit = FALSE

\* the flag animation is not part of the run
AnimIdle ==
    /\ animPc = "idle"
    /\ currentFrame = 0
    /\ phase = ""
    /\ typewriterIndex = 0
    /\ messages = <<>>
    /\ currentMessage = 0
    /\ waited = 0
    /\ animExit = FALSE
    /\ animCmds = EmptyBag
    /\ phases = <<>>

Init ==
    /\ goos \in {"darwin", "linux"}
    /\ userOK \in BOOLEAN
    /\ brewPresent \in BOOLEAN
    /\ listOK \in SUBSET AllQueries
    /\ brewPresent = FALSE => listOK = {}
    /\ chromeApp \in BOOLEAN
    /\ colorOn \in BOOLEAN
    /\ pc = "start"
    /\ editorIndex = 0
    /\ choice = ""
    /\ quitting = FALSE
    /\ editorQuit = FALSE
    /\ steps = <<>>
    /\ currentStep = 0
    /\ done = FALSE
    /\ err = Nil
    /\ frame = 0
    /\ cmds = EmptyBag
    /\ launched = <<>>
    /\ completed = <<>>
    /\ lastEvent = "none"
    /\ queries = <<>>
    /\ printed = <<>>
    /\ execs = <<>>
    /\ exitStatus = -1
    /\ PkgIdle
    /\ ProjIdle
    /\ SelIdle
    /\ AnimIdle

\* SetupCmd.Run returns (setup.go:305, 314, 318, 341, 490): the command ends
\* and the process exits with the status of a normal return
Return(line) ==
    /\ pc' = "exited"
    /\ exitStatus' = 0
    /\ printed' = printed \o line

\* setup.go:301-311 and 265-283: the platform check, then the editor list starts
RunStart ==
    /\ pc = "start"
    /\ IF goos # "darwin"
       THEN Return(<< <<"Este comando solo funciona en macOS.">> >>)
       ELSE /\ pc' = "selectEditor"
            /\ UNCHANGED <<exitStatus, printed>>
    /\ UNCHANGED <<envVars, editorVars, modelVars, cmds, launched, completed, lastEvent, queries, execs>>

\* setup.go:228-251 editorModel.Update on a key; the list moves its cursor on
\* up and down and stays inside the items
EditorKey(k) ==
    /\ pc = "selectEditor"
    /\ CASE k \in {"q", "ctrl+c"} ->
              /\ quitting' = TRUE
              /\ editorQuit' = TRUE
              /\ UNCHANGED <<editorIndex, choice>>
         [] k = "enter" ->
              /\ choice' = editorItems[editorIndex + 1]
              /\ editorQuit' = TRUE
              /\ UNCHANGED <<editorIndex, quitting>>
         [] k = "up" ->
              /\ editorIndex' = IF editorIndex > 0 THEN editorIndex - 1 ELSE editorIndex
              /\ UNCHANGED <<choice, quitting, editorQuit>>
         [] k = "down" ->
              /\ editorIndex' = IF editorIndex < Len(editorItems) - 1 THEN editorIndex + 1 ELSE editorIndex
              /\ UNCHANGED <<choice, quitting, editorQuit>>
         [] OTHER -> UNCHANGED editorVars
    /\ UNCHANGED <<envVars, pc, modelVars, cmds, histVars, exitStatus>>

\* setup.go:284-287 and 312-315: the editor program fails to run
EditorRunErr ==
    /\ pc = "selectEditor"
    /\ Return(<< <<"Error selecting editor: ">> >>)
    /\ UNCHANGED <<envVars, editorVars, modelVars, cmds, launched, completed, lastEvent, queries, execs>>

\* EditorReturn going on with an empty choice
EditorReturn_IgnoresEmptyChoice ==
    /\ pc = "selectEditor"
    /\ editorQuit
    /\ editorIndex' = 0
    /\ quitting' = FALSE
    /\ editorQuit' = FALSE
    /\ UNCHANGED choice
    /\ IF ~userOK
       THEN /\ Return(<< <<"Editor seleccionado: ", choice>>, <<"Error retrieving current user: ">> >>)
            /\ UNCHANGED <<steps, queries>>
       ELSE LET b == buildSteps(choice) IN
            /\ steps' = b.steps
            /\ queries' = b.queries
            /\ printed' = printed \o << <<"Editor seleccionado: ", choice>> >> \o b.printed
            /\ pc' = "program"
            /\ UNCHANGED exitStatus
    /\ UNCHANGED <<envVars, currentStep, done, err, frame, cmds, launched, completed, lastEvent, execs>>

\* EditorReturn going on to build the steps when user.Current() failed
EditorReturn_IgnoresUserError ==
    /\ pc = "selectEditor"
    /\ editorQuit
    /\ editorIndex' = 0
    /\ quitting' = FALSE
    /\ editorQuit' = FALSE
    /\ UNCHANGED choice
    /\ IF choice = ""
       THEN /\ Return(<< <<"No se seleccionó ningún editor, finalizando.">> >>)
            /\ UNCHANGED <<steps, queries>>
       ELSE LET b == buildSteps(choice) IN
            /\ steps' = b.steps
            /\ queries' = b.queries
            /\ printed' = printed \o << <<"Editor seleccionado: ", choice>> >> \o b.printed
            /\ pc' = "program"
            /\ UNCHANGED exitStatus
    /\ UNCHANGED <<envVars, currentStep, done, err, frame, cmds, launched, completed, lastEvent, execs>>

\* setup.go:288-292 and 316-484: the editor program quits, selectEditor
\* returns em.choice and drops the rest of the editor model; Run reads the
\* choice, resolves the user, builds the steps and creates the setup model
EditorReturn ==
    /\ pc = "selectEditor"
    /\ editorQuit
    /\ editorIndex' = 0
    /\ quitting' = FALSE
    /\ editorQuit' = FALSE
    /\ UNCHANGED choice
    /\ IF choice = ""
       THEN /\ Return(<< <<"No se seleccionó ningún editor, finalizando.">> >>)
            /\ UNCHANGED <<steps, queries>>
       ELSE IF ~userOK
       THEN /\ Return(<< <<"Editor seleccionado: ", choice>>, <<"Error retrieving current user: ">> >>)
            /\ UNCHANGED <<steps, queries>>
       ELSE LET b == buildSteps(choice) IN
            /\ steps' = b.steps
            /\ queries' = b.queries
            /\ printed' = printed \o << <<"Editor seleccionado: ", choice>> >> \o b.printed
            /\ pc' = "program"
            /\ UNCHANGED exitStatus
    /\ UNCHANGED <<envVars, currentStep, done, err, frame, cmds, launched, completed, lastEvent, execs>>

\* setup.go:485-489: program.Run returns an error, the process exits 1
ProgramRunErr ==
    /\ pc = "program"
    /\ pc' = "exited"
    /\ exitStatus' = 1
    /\ printed' = Append(printed, <<"Error during setup: ">>)
    /\ UNCHANGED <<envVars, editorVars, modelVars, cmds, launched, completed, lastEvent, queries, execs>>

\* Init that returns the spinner tick alone, without the first step
ModelInit_TickOnly ==
    /\ pc = "program"
    /\ pc' = "tea"
    /\ IF Len(steps) = 0
       THEN /\ done' = TRUE
            /\ UNCHANGED <<cmds, launched>>
       ELSE /\ cmds' = Start(cmds, tickCmd)
            /\ UNCHANGED <<done, launched>>
    /\ UNCHANGED <<envVars, editorVars, steps, currentStep, err, frame, completed, lastEvent,
                   queries, printed, execs, exitStatus>>

\* Init that returns nil over an empty plan without setting done
ModelInit_ForgetsDone ==
    /\ pc = "program"
    /\ pc' = "tea"
    /\ IF Len(steps) = 0
       THEN UNCHANGED <<done, cmds, launched>>
       ELSE /\ cmds' = Start(Start(cmds, tickCmd), runCommand(steps[currentStep + 1], currentStep))
            /\ launched' = Append(launched, currentStep)
            /\ UNCHANGED done
    /\ UNCHANGED <<envVars, editorVars, steps, currentStep, err, frame, completed, lastEvent,
                   queries, printed, execs, exitStatus>>

\* setup.go:90-96 setupModel.Init, called by program.Run
ModelInit ==
    /\ pc = "program"
    /\ pc' = "tea"
    /\ IF Len(steps) = 0
       THEN /\ done' = TRUE
            /\ UNCHANGED <<cmds, launched>>
       ELSE /\ cmds' = Start(Start(cmds, tickCmd), runCommand(steps[currentStep + 1], currentStep))
            /\ launched' = Append(launched, currentStep)
            /\ UNCHANGED done
    /\ UNCHANGED <<envVars, editorVars, steps, currentStep, err, frame, completed, lastEvent,
                   queries, printed, execs, exitStatus>>

\* the tick case moving on to the next step as well
UpdateTick_Advance(rest) ==
    /\ frame' = (frame + 1) % LineFrames
    /\ currentStep' = currentStep + 1
    /\ cmds' = Start(rest, tickCmd)
    /\ UNCHANGED <<pc, exitStatus, steps, done, err, launched, completed, printed>>

\* the tick case launching the current step again
UpdateTick_Relaunch(rest) ==
    /\ frame' = (frame + 1) % LineFrames
    /\ cmds' = Start(Start(rest, tickCmd), runCommand(steps[currentStep + 1], currentStep))
    /\ UNCHANGED <<pc, exitStatus, steps, currentStep, done, err, launched, completed, printed>>

\* setup.go:105-108, the tick case of Update
UpdateTick(rest) ==
    /\ frame' = (frame + 1) % LineFrames
    /\ cmds' = Start(rest, tickCmd)
    /\ UNCHANGED <<pc, exitStatus, steps, currentStep, done, err, launched, completed, printed>>

\* setup.go:115-120, the success line printed for the step that finished
successLines(prevStep) ==
    IF HasPrefix(prevStep.description, <<"▶ ", "Instalando ">>)
       /\ ~Contains(prevStep.description, "Homebrew")
    THEN << successfullyInstalled(
              TrimSuffix(TrimPrefix(prevStep.description, <<"▶ ", "Instalando ">>), <<"...">>)) >>
    ELSE <<>>

\* the result case recording the error without returning: it goes on to the
\* next step
UpdateResult_ErrorFallsThrough(msg, rest) ==
    /\ completed' = Append(completed, [stepIndex |-> msg.stepIndex, at |-> currentStep,
                                       ok |-> msg.err.isNil])
    /\ err' = IF msg.err.isNil THEN err ELSE msg.err
    /\ IF currentStep >= Len(steps)
       THEN /\ pc' = "exited"
            /\ exitStatus' = 2
            /\ cmds' = rest
            /\ UNCHANGED <<steps, currentStep, done, frame, launched, printed>>
       ELSE /\ printed' = printed \o successLines(steps[currentStep + 1])
            /\ currentStep' = currentStep + 1
            /\ IF currentStep + 1 < Len(steps)
               THEN /\ cmds' = Start(rest, runCommand(steps[currentStep + 2], currentStep + 1))
                    /\ launched' = Append(launched, currentStep + 1)
                    /\ UNCHANGED done
               ELSE /\ done' = TRUE
                    /\ cmds' = Start(rest, quitCmd)
                    /\ UNCHANGED launched
            /\ UNCHANGED <<pc, exitStatus, steps, frame>>

\* the result case declaring done one step early
UpdateResult_DoneEarly(msg, rest) ==
    /\ completed' = Append(completed, [stepIndex |-> msg.stepIndex, at |-> currentStep,
                                       ok |-> msg.err.isNil])
    /\ IF ~msg.err.isNil
       THEN /\ err' = msg.err
            /\ cmds' = Start(rest, quitCmd)
            /\ UNCHANGED <<pc, exitStatus, steps, currentStep, done, frame, launched, printed>>
       ELSE IF currentStep >= Len(steps)
       THEN /\ pc' = "exited"
            /\ exitStatus' = 2
            /\ cmds' = rest
            /\ UNCHANGED <<steps, currentStep, done, err, frame, launched, printed>>
       ELSE /\ printed' = printed \o successLines(steps[currentStep + 1])
            /\ currentStep' = currentStep + 1
            /\ IF currentStep + 1 < Len(steps) - 1
               THEN /\ cmds' = Start(rest, runCommand(steps[currentStep + 2], currentStep + 1))
                    /\ launched' = Append(launched, currentStep + 1)
                    /\ UNCHANGED done
               ELSE /\ done' = TRUE
                    /\ cmds' = Start(rest, quitCmd)
                    /\ UNCHANGED launched
            /\ UNCHANGED <<pc, exitStatus, steps, err, frame>>

\* the result case handing the step that just finished, not the next one, to
\* runCommand
UpdateResult_StaleStep(msg, rest) ==
    /\ completed' = Append(completed, [stepIndex |-> msg.stepIndex, at |-> currentStep,
                                       ok |-> msg.err.isNil])
    /\ IF ~msg.err.isNil
       THEN /\ err' = msg.err
            /\ cmds' = Start(rest, quitCmd)
            /\ UNCHANGED <<pc, exitStatus, steps, currentStep, done, frame, launched, printed>>
       ELSE IF currentStep >= Len(steps)
       THEN /\ pc' = "exited"
            /\ exitStatus' = 2
            /\ cmds' = rest
            /\ UNCHANGED <<steps, currentStep, done, err, frame, launched, printed>>
       ELSE /\ printed' = printed \o successLines(steps[currentStep + 1])
            /\ currentStep' = currentStep + 1
            /\ IF currentStep + 1 < Len(steps)
               THEN /\ cmds' = Start(rest, runCommand(steps[currentStep + 1], currentStep + 1))
                    /\ launched' = Append(launched, currentStep + 1)
                    /\ UNCHANGED done
               ELSE /\ done' = TRUE
                    /\ cmds' = Start(rest, quitCmd)
                    /\ UNCHANGED launched
            /\ UNCHANGED <<pc, exitStatus, steps, err, frame>>

\* the result case quitting on a failed completion without recording its error
UpdateResult_ErrorNotRecorded(msg, rest) ==
    /\ completed' = Append(completed, [stepIndex |-> msg.stepIndex, at |-> currentStep,
                                       ok |-> msg.err.isNil])
    /\ IF ~msg.err.isNil
       THEN /\ cmds' = Start(rest, quitCmd)
            /\ UNCHANGED <<pc, exitStatus, steps, currentStep, done, err, frame, launched, printed>>
       ELSE IF currentStep >= Len(steps)
       THEN /\ pc' = "exited"
            /\ exitStatus' = 2
            /\ cmds' = rest
            /\ UNCHANGED <<steps, currentStep, done, err, frame, launched, printed>>
       ELSE /\ printed' = printed \o successLines(steps[currentStep + 1])
            /\ currentStep' = currentStep + 1
            /\ IF currentStep + 1 < Len(steps)
               THEN /\ cmds' = Start(rest, runCommand(steps[currentStep + 2], currentStep + 1))
                    /\ launched' = Append(launched, currentStep + 1)
                    /\ UNCHANGED done
               ELSE /\ done' = TRUE
                    /\ cmds' = Start(rest, quitCmd)
                    /\ UNCHANGED launched
            /\ UNCHANGED <<pc, exitStatus, steps, err, frame>>

\* the result case handing the next step to runCommand with the index of the
\* step that just finished
UpdateResult_StaleIndex(msg, rest) ==
    /\ completed' = Append(completed, [stepIndex |-> msg.stepIndex, at |-> currentStep,
                                       ok |-> msg.err.isNil])
    /\ IF ~msg.err.isNil
       THEN /\ err' = msg.err
            /\ cmds' = Start(rest, quitCmd)
            /\ UNCHANGED <<pc, exitStatus, steps, currentStep, done, frame, launched, printed>>
       ELSE IF currentStep >= Len(steps)
       THEN /\ pc' = "exited"
            /\ exitStatus' = 2
            /\ cmds' = rest
            /\ UNCHANGED <<steps, currentStep, done, err, frame, launched, printed>>
       ELSE /\ printed' = printed \o successLines(steps[currentStep + 1])
            /\ currentStep' = currentStep + 1
            /\ IF currentStep + 1 < Len(steps)
               THEN /\ cmds' = Start(rest, runCommand(steps[currentStep + 2], currentStep))
                    /\ launched' = Append(launched, currentStep + 1)
                    /\ UNCHANGED done
               ELSE /\ done' = TRUE
                    /\ cmds' = Start(rest, quitCmd)
                    /\ UNCHANGED launched
            /\ UNCHANGED <<pc, exitStatus, steps, err, frame>>

\* the result case launching the failed step again instead of giving up
UpdateResult_RetryOnError(msg, rest) ==
    /\ completed' = Append(completed, [stepIndex |-> msg.stepIndex, at |-> currentStep,
                                       ok |-> msg.err.isNil])
    /\ IF ~msg.err.isNil
       THEN /\ cmds' = Start(rest, runCommand(steps[currentStep + 1], currentStep))
            /\ launched' = Append(launched, currentStep)
            /\ UNCHANGED <<pc, exitStatus, steps, currentStep, done, err, frame, printed>>
       ELSE IF currentStep >= Len(steps)
       THEN /\ pc' = "exited"
            /\ exitStatus' = 2
            /\ cmds' = rest
            /\ UNCHANGED <<steps, currentStep, done, err, frame, launched, printed>>
       ELSE /\ printed' = printed \o successLines(steps[currentStep + 1])
            /\ currentStep' = currentStep + 1
            /\ IF currentStep + 1 < Len(steps)
               THEN /\ cmds' = Start(rest, runCommand(steps[currentStep + 2], currentStep + 1))
                    /\ launched' = Append(launched, currentStep + 1)
                    /\ UNCHANGED done
               ELSE /\ done' = TRUE
                    /\ cmds' = Start(rest, quitCmd)
                    /\ UNCHANGED launched
            /\ UNCHANGED <<pc, exitStatus, steps, err, frame>>

\* setup.go:110-128, the commandResultMsg case of Update; indexing steps
\* past its end panics, which ends the process with status 2
UpdateResult(msg, rest) ==
    /\ completed' = Append(completed, [stepIndex |-> msg.stepIndex, at |-> currentStep,
                                       ok |-> msg.err.isNil])
    /\ IF ~msg.err.isNil
       THEN /\ err' = msg.err
            /\ cmds' = Start(rest, quitCmd)
            /\ UNCHANGED <<pc, exitStatus, steps, currentStep, done, frame, launched, printed>>
       ELSE IF currentStep >= Len(steps)
       THEN /\ pc' = "exited"
            /\ exitStatus' = 2
            /\ cmds' = rest
            /\ UNCHANGED <<steps, currentStep, done, err, frame, launched, printed>>
       ELSE /\ printed' = printed \o successLines(steps[currentStep + 1])
            /\ currentStep' = currentStep + 1
            /\ IF currentStep + 1 < Len(steps)
               THEN /\ cmds' = Start(rest, runCommand(steps[currentStep + 2], currentStep + 1))
                    /\ launched' = Append(launched, currentStep + 1)
                    /\ UNCHANGED done
               ELSE /\ done' = TRUE
                    /\ cmds' = Start(rest, quitCmd)
                    /\ UNCHANGED launched
            /\ UNCHANGED <<pc, exitStatus, steps, err, frame>>

\* setup.go:98-130 setupModel.Update for a message, rest being the commands
\* that stay in the background
Update(msg, rest) ==
    /\ lastEvent' = msg.kind
    /\ IF done
       THEN /\ cmds' = Start(rest, quitCmd)
            /\ UNCHANGED <<pc, exitStatus, modelVars, launched, completed, printed>>
       ELSE CASE msg.kind = "tick" -> UpdateTick(rest)
              [] msg.kind = "result" -> UpdateResult(msg, rest)
              [] OTHER -> /\ cmds' = rest
                          /\ UNCHANGED <<pc, exitStatus, modelVars, launched, completed, printed>>

\* the frames of spinner.Line
LineSpinner == <<"|", "/", "-", "\\">>

\* setup.go:24 textStyle
textStyle(s) == Render("252", s)

\* View without the done case
View_IgnoresDone ==
    IF ~err.isNil
    THEN [shows |-> "error", text |-> <<"NL">> \o textStyle(<<"Error: ", err>>) \o <<"NL">>]
    ELSE IF currentStep < Len(steps)
    THEN [shows |-> "step",
          text |-> <<"NL">> \o Render("69", <<LineSpinner[frame + 1]>>) \o <<" ">>
                     \o textStyle(steps[currentStep + 1].description) \o <<"NL">>]
    ELSE [shows |-> "panic", text |-> <<>>]

\* setup.go:132-141 setupModel.View; NL stands for the line feed and ROCKET
\* for the emoji of the success message, and indexing steps past its end
\* panics
View ==
    IF ~err.isNil
    THEN [shows |-> "error", text |-> <<"NL">> \o textStyle(<<"Error: ", err>>) \o <<"NL">>]
    ELSE IF done
    THEN [shows |-> "success",
          text |-> textStyle(<<"NL", "Tu setup se ha completado correctamente ", "ROCKET", "NL">>)]
    ELSE IF currentStep < Len(steps)
    THEN [shows |-> "step",
          text |-> <<"NL">> \o Render("69", <<LineSpinner[frame + 1]>>) \o <<" ">>
                     \o textStyle(steps[currentStep + 1].description) \o <<"NL">>]
    ELSE [shows |-> "panic", text |-> <<>>]

\* a tick command fires and the event loop hands its TickMsg to Update
DeliverTick ==
    /\ pc = "tea"
    /\ BagIn(tickCmd, cmds)
    /\ Update(tickMsg, cmds (-) SetToBag({tickCmd}))
    /\ UNCHANGED <<envVars, editorVars, queries, execs>>

\* setup.go:143-158: the step command has run its process, which ended with
\* or without an error, and the event loop hands the commandResultMsg to Update
DeliverResult ==
    /\ pc = "tea"
    /\ \E c \in StepsInFlight, failed \in BOOLEAN :
          /\ execs' = Append(execs, process(c))
          /\ Update(commandResultMsg(c, failed), cmds (-) SetToBag({c}))
    /\ UNCHANGED <<envVars, editorVars, queries>>

\* the terminal delivers a key press or a window size
DeliverOther ==
    /\ pc = "tea"
    /\ Update(otherMsg, cmds)
    /\ UNCHANGED <<envVars, editorVars, queries, execs>>

\* the user presses ctrl+c: the terminal is in raw mode, so the event loop
\* hands the key to Update like any other message
DeliverInterrupt ==
    /\ pc = "tea"
    /\ Update(interruptMsg, cmds)
    /\ UNCHANGED <<envVars, editorVars, queries, execs>>

\* the event loop receives the QuitMsg: program.Run returns without an error
\* and SetupCmd.Run returns (setup.go:486-490)
DeliverQuit ==
    /\ pc = "tea"
    /\ BagIn(quitCmd, cmds)
    /\ pc' = "exited"
    /\ exitStatus' = 0
    /\ cmds' = cmds (-) SetToBag({quitCmd})
    /\ UNCHANGED <<envVars, editorVars, modelVars, histVars>>

Next ==
    \/ RunStart /\ UNCHANGED <<pkgVars, uiVars>>
    \/ (\E k \in EditorKeys : EditorKey(k)) /\ UNCHANGED <<pkgVars, uiVars>>
    \/ EditorRunErr /\ UNCHANGED <<pkgVars, uiVars>>
    \/ EditorReturn /\ UNCHANGED <<pkgVars, uiVars>>
    \/ ProgramRunErr /\ UNCHANGED <<pkgVars, uiVars>>
    \/ ModelInit /\ UNCHANGED <<pkgVars, uiVars>>
    \/ DeliverTick /\ UNCHANGED <<pkgVars, uiVars>>
    \/ DeliverResult /\ UNCHANGED <<pkgVars, uiVars>>
    \/ DeliverOther /\ UNCHANGED <<pkgVars, uiVars>>
    \/ DeliverInterrupt /\ UNCHANGED <<pkgVars, uiVars>>
    \/ DeliverQuit /\ UNCHANGED <<pkgVars, uiVars>>

Spec == Init /\ [][Next]_vars

\* the goroutine of a step command runs to its end: the process it started
\* exits and its message is read by the event loop
ResultArrives == DeliverResult /\ UNCHANGED <<pkgVars, uiVars>>

\* the setup command when every launched step command delivers its completion
SpecLive == Init /\ [][Next]_vars /\ WF_vars(ResultArrives)

\* ------------------------------------------------------------------
\* The package-manager model (cmd/ui/flag/flag.go:191-410)
\* ------------------------------------------------------------------

\* longest package list handed to InitialModelPkgManager
MaxPkgs == 2

\* flag.go:218-223
Package(displayName, brewName, kind, disabled) ==
    [DisplayName |-> displayName, BrewName |-> brewName, Kind |-> kind, Disabled |-> disabled]

\* the packages the lists are drawn from: a formula, a cask that is enabled
\* or disabled, and the cask with an application bundle
PkgChoices ==
    { Package("fnm", "fnm", "formula", FALSE), Package("Google Chrome", "google-chrome", "cask", FALSE) }
    \cup { Package("Figma", "figma", "cask", d) : d \in BOOLEAN }

\* package lists of at most n packages
PkgLists(n) == UNION { [1..k -> PkgChoices] : k \in 0..n }

\* flag.go:391-410: the package list of the model InitialModelPkgManager
\* returns, the packages that are not Disabled, in order
selectedPackage(input) ==
    LET enabled(pkg) == ~pkg.Disabled IN SelectSeq(input, enabled)

\* no package
NoPkg == Package("", "", "", FALSE)

\* flag.go:334, the command value downloadAndInstall returns for a package
downloadAndInstall(pkg) == [kind |-> "download", pkg |-> pkg, line |-> <<>>]

\* m.spinner.Tick and the tick the spinner schedules after each frame
pkgTickCmd == [kind |-> "tick", pkg |-> NoPkg, line |-> <<>>]

\* the frame command of progress.SetPercent and progress.Update
pkgFrameCmd == [kind |-> "frame", pkg |-> NoPkg, line |-> <<>>]

\* tea.Quit
pkgQuitCmd == [kind |-> "quit", pkg |-> NoPkg, line |-> <<>>]

\* tea.Printf(line)
pkgPrintf(line) == [kind |-> "printf", pkg |-> NoPkg, line |-> line]

\* tea.Sequence(tea.Printf(line), tea.Quit)
pkgPrintfThenQuit(line) == [kind |-> "printfThenQuit", pkg |-> NoPkg, line |-> line]

\* flag.go:239, checkMark (the token CHECK MARK stands for its glyph) followed
\* by the display name ("%s %s")
installedLine(displayName) == Render("42", <<"CHECK MARK">>) \o <<" ", displayName>>

\* flag.go:240, 263, 274: skippedMark.Render(name) followed by the text, which
\* has two spaces in the branch of the last package
skippedLine(displayName, last) ==
    Render("246", <<"■", " ", displayName>>)
        \o <<IF last THEN "  ya se encuentra instalado." ELSE " ya se encuentra instalado.">>

\* brewArgs with the cask flag on the install command only
brewArgs_CaskOnInstallOnly(verb, pkg) ==
    <<verb>> \o (IF pkg.Kind = "cask" /\ verb = "install" THEN <<"--cask">> ELSE <<>>) \o <<pkg.BrewName>>

\* flag.go:348-352 and 361-365, the argument vector of brew for a verb
brewArgs(verb, pkg) ==
    <<verb>> \o (IF pkg.Kind = "cask" THEN <<"--cask">> ELSE <<>>) \o <<pkg.BrewName>>

\* flag.go:334-382, what the command does when it runs: the brew invocations
\* it makes and the message it returns; installFails is the outcome of brew
\* install
downloadResult(pkg, installFails) ==
    IF pkg.Disabled
    THEN [execs |-> <<>>, msg |-> [kind |-> "string", name |-> ""]]
    ELSE IF pkg.BrewName = "google-chrome" /\ fileExists("/Applications/Google Chrome.app")
    THEN [execs |-> <<>>, msg |-> [kind |-> "skipped", name |-> pkg.BrewName]]
    ELSE IF BrewListRuns(brewArgs("list", pkg))
    THEN [execs |-> << [pkg |-> pkg, args |-> brewArgs("list", pkg)] >>,
          msg |-> [kind |-> "skipped", name |-> pkg.BrewName]]
    ELSE [execs |-> << [pkg |-> pkg, args |-> brewArgs("list", pkg)],
                       [pkg |-> pkg, args |-> brewArgs("install", pkg)] >>,
          msg |-> IF installFails
                  THEN [kind |-> "installError", name |-> pkg.BrewName]
                  ELSE [kind |-> "installed", name |-> pkg.BrewName]]

\* the runtime starts a command; tea.Quit is kept once
PkgStart(bag, c) ==
    IF c = pkgQuitCmd /\ BagIn(pkgQuitCmd, bag) THEN bag ELSE bag (+) SetToBag({c})

RECURSIVE PkgStartAll(_, _)
\* the runtime starts the commands of a tea.Batch
PkgStartAll(bag, cs) ==
    IF cs = <<>> THEN bag ELSE PkgStartAll(PkgStart(bag, Head(cs)), Tail(cs))

\* the download commands in flight
DownloadsInFlight == { c \in BagToSet(pkgCmds) : c.kind = "download" }

\* the package-manager program is created with a list of packages; the brew
\* list facts are those of the packages of the list
PkgInit ==
    /\ goos = "darwin"
    /\ userOK = TRUE
    /\ brewPresent \in BOOLEAN
    /\ pkgInput \in PkgLists(MaxPkgs)
    /\ listOK \in SUBSET { brewArgs("list", pkgInput[i]) : i \in 1..Len(pkgInput) }
    /\ brewPresent = FALSE => listOK = {}
    /\ chromeApp \in BOOLEAN
    /\ colorOn \in BOOLEAN
    /\ pc = "idle"
    /\ editorIndex = 0
    /\ choice = ""
    /\ quitting = FALSE
    /\ editorQuit = FALSE
    /\ steps = <<>>
    /\ currentStep = 0
    /\ done = FALSE
    /\ err = Nil
    /\ frame = 0
    /\ cmds = EmptyBag
    /\ launched = <<>>
    /\ completed = <<>>
    /\ lastEvent = "none"
    /\ queries = <<>>
    /\ printed = <<>>
    /\ execs = <<>>
    /\ exitStatus = -1
    /\ packages = selectedPackage(pkgInput)
    /\ pkgIndex = 0
    /\ pkgDone = FALSE
    /\ exitFlag = FALSE
    /\ size = <<0, 0>>
    /\ percent = <<0, 1>>
    /\ pkgFrame = 0
    /\ pkgPc = "new"
    /\ pkgCmds = EmptyBag
    /\ pkgLaunched = <<>>
    /\ pkgCompleted = <<>>
    /\ pkgExecs = <<>>
    /\ pkgPrinted = <<>>
    /\ pkgFailures = <<>>
    /\ ProjIdle
    /\ SelIdle
    /\ AnimIdle

\* flag.go:243-245 model.Init, called when the program starts; indexing an
\* empty package list panics
PkgModelInit ==
    /\ pkgPc = "new"
    /\ IF pkgIndex >= Len(packages)
       THEN /\ pkgPc' = "panic"
            /\ UNCHANGED <<pkgCmds, pkgLaunched>>
       ELSE /\ pkgPc' = "tea"
            /\ pkgCmds' = PkgStartAll(pkgCmds, <<downloadAndInstall(packages[pkgIndex + 1]), pkgTickCmd>>)
            /\ pkgLaunched' = Append(pkgLaunched, packages[pkgIndex + 1])
    /\ UNCHANGED <<envVars, setupVars, pkgModelVars, pkgCompleted, pkgExecs, pkgPrinted, pkgFailures>>

\* the completion cases with the test of the last index off by one
PkgUpdateCompletion_LastOffByOne(msg, rest) ==
    LET pkg == packages[pkgIndex + 1]
        last == pkgIndex >= Len(packages)
        line == IF msg.kind = "skipped" THEN skippedLine(pkg.DisplayName, last)
                ELSE installedLine(pkg.DisplayName)
    IN
    /\ pkgCompleted' = Append(pkgCompleted, [kind |-> msg.kind, name |-> msg.name, at |-> pkgIndex])
    /\ IF last
       THEN /\ pkgDone' = TRUE
            /\ pkgCmds' = PkgStart(rest, pkgPrintfThenQuit(line))
            /\ UNCHANGED <<pkgIndex, percent, pkgLaunched>>
       ELSE /\ pkgIndex' = pkgIndex + 1
            /\ percent' = <<pkgIndex + 1, Len(packages)>>
            /\ pkgCmds' = PkgStartAll(rest, <<pkgFrameCmd, pkgPrintf(line), downloadAndInstall(pkg)>>)
            /\ pkgLaunched' = Append(pkgLaunched, pkg)
            /\ UNCHANGED pkgDone
    /\ UNCHANGED <<pkgInput, packages, exitFlag, size, pkgFrame>>

\* flag.go:257-296, the skippedPkgMsg and installedPkgMsg cases of Update
PkgUpdateCompletion(msg, rest) ==
    LET pkg == packages[pkgIndex + 1]
        last == pkgIndex >= Len(packages) - 1
        line == IF msg.kind = "skipped" THEN skippedLine(pkg.DisplayName, last)
                ELSE installedLine(pkg.DisplayName)
    IN
    /\ pkgCompleted' = Append(pkgCompleted, [kind |-> msg.kind, name |-> msg.name, at |-> pkgIndex])
    /\ IF last
       THEN /\ pkgDone' = TRUE
            /\ pkgCmds' = PkgStart(rest, pkgPrintfThenQuit(line))
            /\ UNCHANGED <<pkgIndex, percent, pkgLaunched>>
       ELSE /\ pkgIndex' = pkgIndex + 1
            /\ percent' = <<pkgIndex + 1, Len(packages)>>
            /\ pkgCmds' = PkgStartAll(rest, <<pkgFrameCmd, pkgPrintf(line), downloadAndInstall(pkg)>>)
            /\ pkgLaunched' = Append(pkgLaunched, pkg)
            /\ UNCHANGED pkgDone
    /\ UNCHANGED <<pkgInput, packages, exitFlag, size, pkgFrame>>

\* flag.go:247-309 model.Update for a message, rest being the commands that
\* stay in the background
PkgUpdate(msg, rest) ==
    CASE msg.kind = "windowSize" ->
            /\ size' = msg.size
            /\ pkgCmds' = rest
            /\ UNCHANGED <<pkgInput, packages, pkgIndex, pkgDone, exitFlag, percent, pkgFrame,
                           pkgLaunched, pkgCompleted>>
      [] msg.kind = "key" /\ msg.name \in {"ctrl+c", "esc", "q"} ->
            /\ exitFlag' = TRUE
            /\ pkgCmds' = PkgStart(rest, pkgQuitCmd)
            /\ UNCHANGED <<pkgInput, packages, pkgIndex, pkgDone, size, percent, pkgFrame,
                           pkgLaunched, pkgCompleted>>
      [] msg.kind \in {"skipped", "installed"} -> PkgUpdateCompletion(msg, rest)
      [] msg.kind = "tick" ->
            /\ pkgFrame' = (pkgFrame + 1) % LineFrames
            /\ pkgCmds' = PkgStart(rest, pkgTickCmd)
            /\ UNCHANGED <<pkgInput, packages, pkgIndex, pkgDone, exitFlag, size, percent,
                           pkgLaunched, pkgCompleted>>
      [] msg.kind = "frame" ->
            /\ \E again \in BOOLEAN :
                  pkgCmds' = IF again THEN PkgStart(rest, pkgFrameCmd) ELSE rest
            /\ UNCHANGED <<pkgModelVars, pkgLaunched, pkgCompleted>>
      [] OTHER ->
            /\ pkgCmds' = rest
            /\ UNCHANGED <<pkgModelVars, pkgLaunched, pkgCompleted>>

\* the terminal reports its size
PkgDeliverWindowSize ==
    /\ pkgPc = "tea"
    /\ PkgUpdate([kind |-> "windowSize", size |-> <<80, 24>>], pkgCmds)
    /\ UNCHANGED <<envVars, setupVars, pkgPc, pkgExecs, pkgPrinted, pkgFailures>>

\* the user presses a key; "other" stands for every key Update has no case for
PkgDeliverKey ==
    /\ pkgPc = "tea"
    /\ \E k \in {"ctrl+c", "esc", "q", "other"} :
          PkgUpdate([kind |-> "key", name |-> k], pkgCmds)
    /\ UNCHANGED <<envVars, setupVars, pkgPc, pkgExecs, pkgPrinted, pkgFailures>>

\* a downloadAndInstall command finishes and its message reaches Update
PkgDeliverDownload ==
    /\ pkgPc = "tea"
    /\ \E c \in DownloadsInFlight, installFails \in (IF brewPresent THEN BOOLEAN ELSE {TRUE}) :
          LET r == downloadResult(c.pkg, installFails) IN
          /\ pkgExecs' = pkgExecs \o r.execs
          /\ pkgFailures' = IF r.msg.kind = "installError" THEN Append(pkgFailures, r.msg) ELSE pkgFailures
          /\ PkgUpdate(r.msg, pkgCmds (-) SetToBag({c}))
    /\ UNCHANGED <<envVars, setupVars, pkgPc, pkgPrinted>>

\* a spinner tick fires
PkgDeliverTick ==
    /\ pkgPc = "tea"
    /\ BagIn(pkgTickCmd, pkgCmds)
    /\ PkgUpdate([kind |-> "tick"], pkgCmds (-) SetToBag({pkgTickCmd}))
    /\ UNCHANGED <<envVars, setupVars, pkgPc, pkgExecs, pkgPrinted, pkgFailures>>

\* a progress bar frame fires
PkgDeliverFrame ==
    /\ pkgPc = "tea"
    /\ BagIn(pkgFrameCmd, pkgCmds)
    /\ PkgUpdate([kind |-> "frame"], pkgCmds (-) SetToBag({pkgFrameCmd}))
    /\ UNCHANGED <<envVars, setupVars, pkgPc, pkgExecs, pkgPrinted, pkgFailures>>

\* the runtime prints the line of a tea.Printf; inside a tea.Sequence the
\* tea.Quit follows it
PkgDeliverPrintf ==
    /\ pkgPc = "tea"
    /\ \E c \in BagToSet(pkgCmds) :
          /\ c.kind \in {"printf", "printfThenQuit"}
          /\ pkgPrinted' = Append(pkgPrinted, c.line)
          /\ pkgCmds' = IF c.kind = "printfThenQuit"
                        THEN PkgStart(pkgCmds (-) SetToBag({c}), pkgQuitCmd)
                        ELSE pkgCmds (-) SetToBag({c})
    /\ UNCHANGED <<envVars, setupVars, pkgModelVars, pkgPc, pkgLaunched, pkgCompleted, pkgExecs, pkgFailures>>

\* the event loop receives the QuitMsg and the program returns
PkgDeliverQuit ==
    /\ pkgPc = "tea"
    /\ BagIn(pkgQuitCmd, pkgCmds)
    /\ pkgPc' = "exited"
    /\ pkgCmds' = pkgCmds (-) SetToBag({pkgQuitCmd})
    /\ UNCHANGED <<envVars, setupVars, pkgModelVars, pkgHistVars>>

PkgNext ==
    \/ PkgModelInit /\ UNCHANGED uiVars
    \/ PkgDeliverWindowSize /\ UNCHANGED uiVars
    \/ PkgDeliverKey /\ UNCHANGED uiVars
    \/ PkgDeliverDownload /\ UNCHANGED uiVars
    \/ PkgDeliverTick /\ UNCHANGED uiVars
    \/ PkgDeliverFrame /\ UNCHANGED uiVars
    \/ PkgDeliverPrintf /\ UNCHANGED uiVars
    \/ PkgDeliverQuit /\ UNCHANGED uiVars

SpecPkg == PkgInit /\ [][PkgNext]_vars

\* either program runs: the setup command or the package-manager program
AllInit == Init \/ PkgInit

AllNext ==
    \/ RunStart /\ UNCHANGED <<pkgVars, uiVars>>
    \/ (\E k \in EditorKeys : EditorKey(k)) /\ UNCHANGED <<pkgVars, uiVars>>
    \/ EditorRunErr /\ UNCHANGED <<pkgVars, uiVars>>
    \/ EditorReturn /\ UNCHANGED <<pkgVars, uiVars>>
    \/ ProgramRunErr /\ UNCHANGED <<pkgVars, uiVars>>
    \/ ModelInit /\ UNCHANGED <<pkgVars, uiVars>>
    \/ DeliverTick /\ UNCHANGED <<pkgVars, uiVars>>
    \/ DeliverResult /\ UNCHANGED <<pkgVars, uiVars>>
    \/ DeliverOther /\ UNCHANGED <<pkgVars, uiVars>>
    \/ DeliverInterrupt /\ UNCHANGED <<pkgVars, uiVars>>
    \/ DeliverQuit /\ UNCHANGED <<pkgVars, uiVars>>
    \/ PkgModelInit /\ UNCHANGED uiVars
    \/ PkgDeliverWindowSize /\ UNCHANGED uiVars
    \/ PkgDeliverKey /\ UNCHANGED uiVars
    \/ PkgDeliverDownload /\ UNCHANGED uiVars
    \/ PkgDeliverTick /\ UNCHANGED uiVars
    \/ PkgDeliverFrame /\ UNCHANGED uiVars
    \/ PkgDeliverPrintf /\ UNCHANGED uiVars
    \/ PkgDeliverQuit /\ UNCHANGED uiVars

SpecAll == AllInit /\ [][AllNext]_vars

\* ------------------------------------------------------------------
\* Project.Run (cmd/program), the selection list (cmd/ui/multiInput) and the
\* flag animation (cmd/ui/flag/flag.go:1-190)
\* ------------------------------------------------------------------

\* neither the setup command nor the package-manager program is part of the
\* run; the facts about brew are not looked at
SetupIdle ==
    /\ brewPresent = FALSE
    /\ listOK = {}
    /\ chromeApp = FALSE
    /\ colorOn = FALSE
    /\ pc = "idle"
    /\ editorIndex = 0
    /\ choice = ""
    /\ quitting = FALSE
    /\ editorQuit = FALSE
    /\ steps = <<>>
    /\ currentStep = 0
    /\ done = FALSE
    /\ err = Nil
    /\ frame = 0
    /\ cmds = EmptyBag
    /\ launched = <<>>
    /\ completed = <<>>
    /\ lastEvent = "none"
    /\ queries = <<>>
    /\ printed = <<>>
    /\ execs = <<>>
    /\ exitStatus = -1
    /\ PkgIdle

\* the users user.Current() can resolve
Users ==
    { [Username |-> "ana", HomeDir |-> "/Users/ana"],
      [Username |-> "root", HomeDir |-> "/var/root"] }

\* the zero user
NoUser == [Username |-> "", HomeDir |-> ""]

\* CheckOS mapping every system but windows to darwin as well
CheckOS_UnixIsDarwin(os) ==
    (IF os # "windows" THEN {"UnixBased", "darwin"} ELSE {})
        \cup (IF os = "linux" THEN {"linux"} ELSE {})

\* program.go Project.CheckOS: the keys of OSCheck set to true for a GOOS
CheckOS(os) ==
    (IF os # "windows" THEN {"UnixBased"} ELSE {})
        \cup (IF os = "linux" THEN {"linux"} ELSE {})
        \cup (IF os = "darwin" THEN {"darwin"} ELSE {})

\* program.go Project.CreateEditorMap: flag value and display name
CreateEditorMap ==
    { <<"cursor", "Cursor">>, <<"vscode", "VSCode">>, <<"nvim", "Neovim">>,
      <<"xcode", "Xcode">>, <<"none", "None">> }

\* Project.Run is called on a fresh Project
ProjInit ==
    /\ goos \in {"darwin", "linux", "windows"}
    /\ userOK \in BOOLEAN
    /\ osUser \in (IF userOK THEN Users ELSE {NoUser})
    /\ SetupIdle
    /\ projPc = "new"
    /\ OSCheck = {}
    /\ EditorMap = {}
    /\ Username = ""
    /\ HomeDir = ""
    /\ projErr = ""
    /\ SelIdle
    /\ AnimIdle

\* program.go Project.Run: the error of utils.GetCurrentUser is discarded,
\* so when the user cannot be resolved currentuser is nil and reading
\* currentuser.HomeDir panics
ProjectRun ==
    /\ projPc = "new"
    /\ OSCheck' = CheckOS(goos)
    /\ EditorMap' = CreateEditorMap
    /\ IF ~userOK
       THEN /\ projPc' = "panic"
            /\ UNCHANGED <<Username, HomeDir, projErr>>
       ELSE /\ HomeDir' = osUser.HomeDir
            /\ Username' = osUser.Username
            /\ projErr' = IF "darwin" \notin OSCheck'
                          THEN "lo lamentamos, este comando solo funciona en macOS"
                          ELSE ""
            /\ projPc' = "returned"
    /\ UNCHANGED <<envVars, setupVars, pkgVars, osUser, selVars, animVars>>

\* longest list of choices handed to InitialModelMulti
MaxChoices == 3

\* the names the choices are drawn from
ChoiceNames == {"Cursor", "VSCode", "Neovim"}

\* the keys the selection list is sent; "x" stands for every key Update has
\* no case for
SelKeys == {"up", "k", "down", "j", "enter", " ", "y", "x"}

\* part_004:35-42 InitialModelMulti over a non-empty list of choices
SelInit ==
    /\ goos = "darwin"
    /\ userOK = TRUE
    /\ SetupIdle
    /\ ProjIdle
    /\ AnimIdle
    /\ selPc = "new"
    /\ selChoices \in UNION { [1..n -> ChoiceNames] : n \in 1..MaxChoices }
    /\ selCursor = 0
    /\ selSelected = {}
    /\ selChoice = ""
    /\ selQuit = FALSE

\* part_004:31-33 model.Init returns no command
SelModelInit ==
    /\ selPc = "new"
    /\ selPc' = "tea"
    /\ UNCHANGED <<envVars, setupVars, pkgVars, projVars, animVars,
                   selChoices, selCursor, selSelected, selChoice, selQuit>>

\* the enter case adding the cursor to the map without emptying it first
toggle_NoReset(sel, cur) ==
    IF cur \in sel THEN sel \ {cur} ELSE sel \cup {cur}

\* part_004:56-65, the enter and space case: the map after the key
toggle(sel, cur) ==
    LET kept == IF Cardinality(sel) = 1 THEN {} ELSE sel IN
    IF cur \in kept THEN kept \ {cur} ELSE kept \cup {cur}

\* part_004:44-77 model.Update on a key; with one key in the map the range
\* loop of the y case runs once, for that key
SelUpdate(k) ==
    CASE k \in {"up", "k"} ->
            /\ selCursor' = IF selCursor > 0 THEN selCursor - 1 ELSE selCursor
            /\ UNCHANGED <<selSelected, selChoice, selQuit>>
      [] k \in {"down", "j"} ->
            /\ selCursor' = IF selCursor < Len(selChoices) - 1 THEN selCursor + 1 ELSE selCursor
            /\ UNCHANGED <<selSelected, selChoice, selQuit>>
      [] k \in {"enter", " "} ->
            /\ selSelected' = toggle(selSelected, selCursor)
            /\ UNCHANGED <<selCursor, selChoice, selQuit>>
      [] k = "y" ->
            IF Cardinality(selSelected) = 1
            THEN LET selectedKey == CHOOSE key \in selSelected : TRUE IN
                 /\ selChoice' = selChoices[selectedKey + 1]
                 /\ selCursor' = selectedKey
                 /\ selQuit' = TRUE
                 /\ UNCHANGED selSelected
            ELSE UNCHANGED <<selCursor, selSelected, selChoice, selQuit>>
      [] OTHER -> UNCHANGED <<selCursor, selSelected, selChoice, selQuit>>

\* the user presses a key and the event loop hands it to Update
SelDeliverKey ==
    /\ selPc = "tea"
    /\ \E k \in SelKeys : SelUpdate(k)
    /\ UNCHANGED <<envVars, setupVars, pkgVars, projVars, animVars, selPc, selChoices>>

\* the event loop receives the QuitMsg and the selection program returns
SelDeliverQuit ==
    /\ selPc = "tea"
    /\ selQuit
    /\ selPc' = "exited"
    /\ selQuit' = FALSE
    /\ UNCHANGED <<envVars, setupVars, pkgVars, projVars, animVars,
                   selChoices, selCursor, selSelected, selChoice>>

\* flag.go:25-34, the eight frames of the flag, by name
flagFrames == <<"frame0", "frame1", "frame2", "frame3", "frame4", "frame5", "frame6", "frame7">>

\* text ticks (one every 40ms, flag.go:185) after which a second has passed
WaitTicks == 25

\* the bytes of a user name
Bytes(name) ==
    CASE name = "ana" -> <<"a", "n", "a">>
      [] name = "root" -> <<"r", "o", "o", "t">>
      [] OTHER -> <<>>

\* flag.go:82 fmt.Sprintf("Bienvenido a paisanos, %s.", username), as bytes:
\* len and the slice of View count bytes
welcomeMessage(name) ==
    << "B", "i", "e", "n", "v", "e", "n", "i", "d", "o", " ", "a",
       " ", "p", "a", "i", "s", "a", "n", "o", "s", ",", " " >>
        \o Bytes(name) \o <<".">>

\* flag.go:83, as bytes (the inverted exclamation mark takes two)
conquerMessage ==
    << "0xC2", "0xA1", "J", "u", "n", "t", "o", "s", " ", "v", "a", "m",
       "o", "s", " ", "a", " ", "c", "o", "n", "q", "u", "i", "s",
       "t", "a", "r", " ", "e", "l", " ", "m", "u", "n", "d", "o",
       "!" >>

\* tickFlagCmd, flag.go:178-182
tickFlagCmd == "flagTick"

\* tickTextCmd, flag.go:185-189
tickTextCmd == "textTick"

\* tea.Quit
animQuitCmd == "quit"

\* the runtime starts a command; tea.Quit is kept once
AnimStart(bag, c) ==
    IF c = animQuitCmd /\ BagIn(animQuitCmd, bag) THEN bag ELSE bag (+) SetToBag({c})

\* flag.go:74-88 InitialModelFlag; username is the package variable set from
\* getUserName, empty when the user cannot be resolved
AnimInit ==
    /\ goos = "darwin"
    /\ userOK \in BOOLEAN
    /\ osUser \in (IF userOK THEN Users ELSE {NoUser})
    /\ SetupIdle
    /\ projPc = "idle"
    /\ OSCheck = {}
    /\ EditorMap = {}
    /\ Username = ""
    /\ HomeDir = ""
    /\ projErr = ""
    /\ SelIdle
    /\ animPc = "new"
    /\ currentFrame = 0
    /\ phase = "typing"
    /\ typewriterIndex = 0
    /\ messages = <<welcomeMessage(osUser.Username), conquerMessage>>
    /\ currentMessage = 0
    /\ waited = 0
    /\ animExit = FALSE
    /\ animCmds = EmptyBag
    /\ phases = << <<"typing", 0>> >>

\* flag.go:91-93 model.Init
AnimModelInit ==
    /\ animPc = "new"
    /\ animPc' = "tea"
    /\ animCmds' = AnimStart(AnimStart(animCmds, tickFlagCmd), tickTextCmd)
    /\ UNCHANGED <<envVars, setupVars, pkgVars, projVars, selVars, currentFrame, phase,
                   typewriterIndex, messages, currentMessage, waited, animExit, phases>>

\* the flag tick case rescheduling the tick in every phase
UpdateFlagTick_NoClearedTest(rest) ==
    /\ currentFrame' = (currentFrame + 1) % Len(flagFrames)
    /\ animCmds' = AnimStart(rest, tickFlagCmd)

\* flag.go:98-103, the flagTickMsg case of Update
UpdateFlagTick(rest) ==
    IF phase = "cleared"
    THEN /\ animCmds' = rest
         /\ UNCHANGED currentFrame
    ELSE /\ currentFrame' = (currentFrame + 1) % Len(flagFrames)
         /\ animCmds' = AnimStart(rest, tickFlagCmd)

\* flag.go:105-131, the textTickMsg case of Update; elapsed is the outcome
\* of time.Since(m.waitStart) >= time.Second
UpdateTextTick(rest, elapsed) ==
    CASE phase = "typing" ->
            /\ IF typewriterIndex < Len(messages[currentMessage + 1])
               THEN /\ typewriterIndex' = typewriterIndex + 1
                    /\ UNCHANGED <<phase, waited>>
               ELSE /\ phase' = IF currentMessage = 0 THEN "waiting" ELSE "waitingClear"
                    /\ waited' = 0
                    /\ UNCHANGED typewriterIndex
            /\ animCmds' = AnimStart(rest, tickTextCmd)
            /\ UNCHANGED currentMessage
      [] phase = "waiting" ->
            /\ IF elapsed
               THEN /\ currentMessage' = 1
                    /\ typewriterIndex' = 0
                    /\ phase' = "typing"
                    /\ UNCHANGED waited
               ELSE /\ waited' = waited + 1
                    /\ UNCHANGED <<currentMessage, typewriterIndex, phase>>
            /\ animCmds' = AnimStart(rest, tickTextCmd)
      [] phase = "waitingClear" ->
            /\ IF elapsed
               THEN /\ phase' = "cleared"
                    /\ UNCHANGED waited
               ELSE /\ waited' = waited + 1
                    /\ UNCHANGED phase
            /\ animCmds' = AnimStart(rest, tickTextCmd)
            /\ UNCHANGED <<currentMessage, typewriterIndex>>
      [] phase = "cleared" ->
            /\ animCmds' = AnimStart(rest, animQuitCmd)
            /\ UNCHANGED <<currentMessage, typewriterIndex, phase, waited>>
      [] OTHER ->
            /\ animCmds' = AnimStart(rest, tickTextCmd)
            /\ UNCHANGED <<currentMessage, typewriterIndex, phase, waited>>

\* the history of phases, extended when the phase or the message changed
PhasesRecorded ==
    phases' = IF <<phase', currentMessage'>> # <<phase, currentMessage>>
              THEN Append(phases, <<phase', currentMessage'>>)
              ELSE phases

\* a flag tick fires and the event loop hands it to Update
AnimDeliverFlagTick ==
    /\ animPc = "tea"
    /\ BagIn(tickFlagCmd, animCmds)
    /\ UpdateFlagTick(animCmds (-) SetToBag({tickFlagCmd}))
    /\ UNCHANGED <<envVars, setupVars, pkgVars, projVars, selVars, animPc, phase, typewriterIndex,
                   messages, currentMessage, waited, animExit, phases>>

\* a text tick fires and the event loop hands it to Update; the ticks are at
\* least 40ms apart, so the second has passed at the latest WaitTicks ticks
\* after waitStart and may have passed before
AnimDeliverTextTick ==
    /\ animPc = "tea"
    /\ BagIn(tickTextCmd, animCmds)
    /\ \E elapsed \in (IF waited + 1 >= WaitTicks THEN {TRUE} ELSE BOOLEAN) :
          UpdateTextTick(animCmds (-) SetToBag({tickTextCmd}), elapsed)
    /\ PhasesRecorded
    /\ UNCHANGED <<envVars, setupVars, pkgVars, projVars, selVars, animPc, currentFrame,
                   messages, animExit>>

\* flag.go:133-140, the user presses a key; "x" stands for every other key
AnimDeliverKey ==
    /\ animPc = "tea"
    /\ \E k \in {"q", "ctrl+c", "x"} :
          IF k \in {"q", "ctrl+c"}
          THEN /\ animExit' = TRUE
               /\ animCmds' = AnimStart(animCmds, animQuitCmd)
          ELSE UNCHANGED <<animExit, animCmds>>
    /\ UNCHANGED <<envVars, setupVars, pkgVars, projVars, selVars, animPc, currentFrame, phase,
                   typewriterIndex, messages, currentMessage, waited, phases>>

\* the event loop receives the QuitMsg and the animation program returns
AnimDeliverQuit ==
    /\ animPc = "tea"
    /\ BagIn(animQuitCmd, animCmds)
    /\ animPc' = "exited"
    /\ animCmds' = animCmds (-) SetToBag({animQuitCmd})
    /\ UNCHANGED <<envVars, setupVars, pkgVars, projVars, selVars, currentFrame, phase,
                   typewriterIndex, messages, currentMessage, waited, animExit, phases>>

\* one of the three runs: Project.Run, the selection list or the animation
UIInit == ProjInit \/ SelInit \/ AnimInit

UINext ==
    \/ ProjectRun
    \/ SelModelInit
    \/ SelDeliverKey
    \/ SelDeliverQuit
    \/ AnimModelInit
    \/ AnimDeliverFlagTick
    \/ AnimDeliverTextTick
    \/ AnimDeliverKey
    \/ AnimDeliverQuit

SpecUI == UIInit /\ [][UINext]_vars

\* ------------------------------------------------------------------
\* Properties
\* ------------------------------------------------------------------

\* the elements of a sequence
Range(seq) == { seq[i] : i \in 1..Len(seq) }

\* SetupCmd.Run has built its steps (the brew lookup is its first query)
PlanBuilt == queries # <<>>

\* program.Run has called setupModel.Init (Update only runs after Init)
Started == pc = "tea" \/ lastEvent # "none"

\* the positions of the plan whose step runs brew with the given arguments
StepsWith(args) == { i \in 1..Len(steps) : steps[i].command = "brew" /\ steps[i].args = args }

\* C1: at most one step command is in flight, the steps are launched in plan
\* order, each once, and step k is launched only when the completion of
\* step k-1 has been processed without error by Update.
C1_OneStepAtATime ==
    /\ InFlight <= 1
    /\ \A k \in 1..Len(launched) :
          /\ launched[k] = k - 1
          /\ k > 1 => /\ Len(completed) >= k - 1
                      /\ completed[k - 1].stepIndex = k - 2
                      /\ completed[k - 1].ok

C1_Witness ==
    /\ Len(launched) >= 3
    /\ InFlight = 1
    /\ lastEvent = "tick"

\* C2: once Update has processed a completion carrying an error for step i,
\* the error is recorded, done is not set, that completion is the last one
\* ever processed, step i is the last one ever launched and nothing is in
\* flight.
C2_FailureStopsPlan ==
    \A j \in 1..Len(completed) :
        ~completed[j].ok =>
            /\ j = Len(completed)
            /\ ~err.isNil
            /\ ~done
            /\ currentStep = completed[j].stepIndex
            /\ Len(launched) = completed[j].stepIndex + 1
            /\ InFlight = 0

C2_Witness ==
    /\ ~err.isNil
    /\ currentStep >= 1
    /\ currentStep + 1 < Len(steps)
    /\ lastEvent = "tick"

\* C3: over an empty plan, once Init has run the model is done, nothing was
\* ever launched and no step command is in flight.
C3_EmptyPlanDone ==
    (Started /\ Len(steps) = 0) =>
        /\ done
        /\ launched = <<>>
        /\ InFlight = 0
        /\ completed = <<>>

C3_Witness ==
    /\ Started
    /\ Len(steps) = 0
    /\ pc = "exited"

\* C4: over an empty plan, Init emits the quit that ends the event loop, so
\* while the program runs a quit is on its way without any other message.
C4_EmptyPlanQuits ==
    (pc = "tea" /\ Len(steps) = 0) => BagIn(quitCmd, cmds)

\* C5: with brew present, no step installs an entry whose existence query
\* (brew list, or the stat of the application bundle) succeeded at build time.
C5_NoRedundantInstall ==
    (PlanBuilt /\ brewPresent) =>
        /\ \A q \in Range(queries) :
              (q[1] = "list" /\ q \in listOK) => StepsWith(<<"install">> \o Tail(q)) = {}
        /\ (<<"stat", "/Applications/Google Chrome.app">> \in Range(queries) /\ chromeApp)
              => StepsWith(<<"install", "--cask", "google-chrome">>) = {}

C5_Witness ==
    /\ PlanBuilt
    /\ brewPresent
    /\ Len(steps) >= 2
    /\ Cardinality(Range(queries) \cap listOK) >= 2

\* the positions of the plan that hold one of the three bootstrap steps
BootstrapPositions == { i \in 1..Len(steps) : steps[i] \in Range(bootstrapSteps) }

\* C6: the plan holds bootstrap steps iff brew is absent, and then they are
\* exactly positions 0, 1, 2 in the order install, configure, evaluate.
C6_BootstrapFirst ==
    PlanBuilt =>
        /\ brewPresent => BootstrapPositions = {}
        /\ ~brewPresent =>
              /\ BootstrapPositions = {1, 2, 3}
              /\ steps[1].description = <<"Instalando ", "Homebrew", "...">>
              /\ steps[2].description = <<"Configurando ", "Homebrew", "...">>
              /\ steps[3].description = <<"Evaluando entorno de ", "Homebrew", "...">>

C6_Witness ==
    /\ PlanBuilt
    /\ ~brewPresent
    /\ pc = "tea"
    /\ currentStep = 3

\* the install argument vectors of the entries enabled for an editor choice
EnabledInstalls(editorChoice) ==
    { <<"install", "fnm">>, <<"install", "--cask", "figma">>, <<"install", "--cask", "notion">>,
      <<"install", "--cask", "slack">>, <<"install", "--cask", "google-chrome">> }
    \cup (IF editorChoice = "neovim" THEN { <<"install", "neovim">> } ELSE {})
    \cup (IF editorChoice = "vscode" THEN { <<"install", "--cask", "visual-studio-code">> } ELSE {})
    \cup (IF editorChoice = "cursor.ai" THEN { <<"install", "--cask", "cursor">> } ELSE {})

\* C7: with brew absent the plan is the bootstrap triplet followed by exactly
\* one install step for every enabled entry, so 3 + the number of enabled
\* entries steps.
C7_AbsentInstallsAll ==
    (PlanBuilt /\ ~brewPresent) =>
        /\ Len(steps) = 3 + Cardinality(EnabledInstalls(choice))
        /\ SubSeq(steps, 1, 3) = bootstrapSteps
        /\ \A a \in EnabledInstalls(choice) :
              /\ Cardinality(StepsWith(a)) = 1
              /\ StepsWith(a) \subseteq 4..Len(steps)

C7_Witness ==
    /\ PlanBuilt
    /\ ~brewPresent
    /\ chromeApp
    /\ choice = "vscode"
    /\ Len(steps) = 9

\* C8: if the Chrome application bundle exists at build time, the plan holds
\* no install step for google-chrome, whatever the other facts are.
C8_ChromeBundleSkips ==
    (PlanBuilt /\ chromeApp) => StepsWith(<<"install", "--cask", "google-chrome">>) = {}

\* done implies every step of the plan was launched and completed without
\* error, in plan order
C9_DoneOnlyIfAllRan ==
    done =>
        /\ currentStep = Len(steps)
        /\ launched = [k \in 1..Len(steps) |-> k - 1]
        /\ completed = [k \in 1..Len(steps) |-> [stepIndex |-> k - 1, at |-> k - 1, ok |-> TRUE]]
        /\ err.isNil

\* this step processes the completion of the last step of the plan, without
\* error
C9_LastCompletes ==
    /\ Len(completed') = Len(completed) + 1
    /\ completed'[Len(completed')].ok
    /\ completed'[Len(completed')].at = Len(steps) - 1

\* this step is Init over an empty plan
C9_InitEmpty == pc = "program" /\ pc' = "tea" /\ Len(steps) = 0

\* C9 as stated: Done only if all steps ran in order without error, and Done
\* is entered exactly when the completion of the last step arrives without
\* error.
C9_DoneExactlyOnLast ==
    /\ []C9_DoneOnlyIfAllRan
    /\ [][(~done /\ done') <=> C9_LastCompletes]_vars

\* C9 amended: Done only if all steps ran in order without error; Done is
\* entered exactly when the completion of the last step arrives without
\* error or, over an empty plan, when Init runs.
C9_DoneOnLastOrEmpty ==
    /\ []C9_DoneOnlyIfAllRan
    /\ [][(~done /\ done') <=> (C9_LastCompletes \/ C9_InitEmpty)]_vars

C9_Witness ==
    /\ done
    /\ Len(steps) >= 2
    /\ pc = "exited"

\* C10: the process exits non-zero when the model ended with an error
\* recorded and zero when it ended done.
C10_ExitStatus ==
    pc = "exited" =>
        /\ ~err.isNil => exitStatus # 0
        /\ done => exitStatus = 0

\* C11: the process exits non-zero when the operating system is not darwin.
C11_UnsupportedOSExit ==
    (pc = "exited" /\ goos # "darwin") => exitStatus # 0

\* C12: when the operating system is not darwin or the user cannot be
\* resolved, no step is ever built, no existence query is run and nothing is
\* launched; the platform failure is the only line printed, and the user
\* failure is printed right after the editor choice.
C12_PreconditionFailure ==
    /\ (goos # "darwin" \/ ~userOK) =>
          /\ steps = <<>>
          /\ queries = <<>>
          /\ launched = <<>>
          /\ cmds = EmptyBag
          /\ pc \notin {"program", "tea"}
    /\ (goos # "darwin" /\ pc # "start") =>
          /\ pc = "exited"
          /\ printed = << <<"Este comando solo funciona en macOS.">> >>
          /\ choice = ""
    /\ (~userOK /\ <<"Editor seleccionado: ", choice>> \in Range(printed)) =>
          /\ pc = "exited"
          /\ printed = << <<"Editor seleccionado: ", choice>>, <<"Error retrieving current user: ">> >>

C12_Witness ==
    /\ pc = "exited"
    /\ goos = "darwin"
    /\ ~userOK
    /\ choice = "vscode"
    /\ Len(printed) = 2

\* C13: the recorded error carries the description and the output of the
\* step at currentStep, the one whose completion was processed last.
C13_ErrorOfFailedStep ==
    ~err.isNil =>
        /\ currentStep < Len(steps)
        /\ err.description = steps[currentStep + 1].description
        /\ err.output = currentStep
        /\ completed[Len(completed)] = [stepIndex |-> currentStep, at |-> currentStep, ok |-> FALSE]

C13_Witness ==
    /\ ~err.isNil
    /\ currentStep = 2
    /\ Len(steps) >= 4

\* the name a brew install argument vector is displayed under
DisplayName(installArgs) ==
    LET brewName == installArgs[Len(installArgs)] IN
    IF brewName = "visual-studio-code" THEN "vscode"
    ELSE IF brewName = "cursor" THEN "cursor.ai"
    ELSE brewName

\* the number of lines printed that equal the given line
Printed(line) == Cardinality({ i \in 1..Len(printed) : printed[i] = line })

\* C14: every brew install step completed without error has exactly one
\* success notice naming its package.
C14_SuccessNotice ==
    \A j \in 1..Len(completed) :
        (completed[j].ok /\ steps[completed[j].at + 1].command = "brew") =>
            Printed(successfullyInstalled(<<DisplayName(steps[completed[j].at + 1].args)>>)) = 1

\* the enabled catalog entries for an editor choice: display name, existence
\* query and install command
CatalogEntries(editorChoice) ==
    { [name |-> "fnm", list |-> <<"list", "fnm">>, install |-> <<"install", "fnm">>] }
    \cup { [name |-> caskInstallations[i], list |-> <<"list", "--cask", caskInstallations[i]>>,
            install |-> <<"install", "--cask", caskInstallations[i]>>] : i \in 1..Len(caskInstallations) }
    \cup (IF editorChoice = "neovim"
          THEN { [name |-> "neovim", list |-> <<"list", "neovim">>, install |-> <<"install", "neovim">>] }
          ELSE {})
    \cup (IF editorChoice = "vscode"
          THEN { [name |-> "vscode", list |-> <<"list", "--cask", "visual-studio-code">>,
                  install |-> <<"install", "--cask", "visual-studio-code">>] }
          ELSE {})
    \cup (IF editorChoice = "cursor.ai"
          THEN { [name |-> "cursor.ai", list |-> <<"list", "--cask", "cursor">>,
                  install |-> <<"install", "--cask", "cursor">>] }
          ELSE {})

\* the entry's check ran at build time and reported it present
FoundSatisfied(e) ==
    \/ /\ <<"stat", "/Applications/Google Chrome.app">> \in Range(queries)
       /\ e.name = "google-chrome"
       /\ chromeApp
    \/ /\ e.list \in Range(queries)
       /\ e.list \in listOK

\* the line is an "already installed" notice of some entry
IsSkipNotice(line) ==
    \E name \in {"neovim", "fnm", "figma", "notion", "slack", "google-chrome", "vscode", "cursor.ai"} :
        line = alreadyInstalled(name)

\* the number of "already installed" lines printed so far
SkipNotices == Cardinality({ i \in 1..Len(printed) : IsSkipNotice(printed[i]) })

\* every entry found satisfied has exactly one skipped notice and no step
C15_OneNoticeNoStep ==
    PlanBuilt =>
        \A e \in CatalogEntries(choice) :
            FoundSatisfied(e) =>
                /\ Printed(alreadyInstalled(e.name)) = 1
                /\ StepsWith(e.install) = {}

\* C15: every enabled entry found satisfied at build time has exactly one
\* skipped notice and no step, and no skipped notice is printed once Init has
\* run or a step was launched.
C15_SkippedNotices ==
    /\ []C15_OneNoticeNoStep
    /\ [][(Started \/ launched # <<>>) =>
             \A i \in (Len(printed) + 1)..Len(printed') : ~IsSkipNotice(printed'[i])]_vars

C15_Witness ==
    /\ PlanBuilt
    /\ launched # <<>>
    /\ SkipNotices >= 2
    /\ chromeApp
    /\ brewPresent

\* C17: an enabled entry whose brew list query ran and failed has exactly one
\* install step and no skipped notice.
C17_FailedQueryInstalls ==
    PlanBuilt =>
        \A e \in CatalogEntries(choice) :
            (e.list \in Range(queries) /\ e.list \notin listOK) =>
                /\ Cardinality(StepsWith(e.install)) = 1
                /\ Printed(alreadyInstalled(e.name)) = 0

C17_Witness ==
    /\ PlanBuilt
    /\ brewPresent
    /\ <<"list", "--cask", "google-chrome">> \in Range(queries)
    /\ <<"list", "--cask", "google-chrome">> \notin listOK
    /\ <<"list", "fnm">> \in listOK

\* C19: once the interrupt key has been processed while the model was
\* running (not done, no error), the run is ending: a quit is on its way, and
\* neither done nor an error is set.
C19_InterruptEndsRun ==
    (pc = "tea" /\ lastEvent = "key" /\ ~done /\ err.isNil) => BagIn(quitCmd, cmds)

\* the editor entries of the setup command, selected or not
EditorEntries == UNION { CatalogEntries(e) : e \in Range(editorItems) } \ CatalogEntries("")

\* the display names of the packages of a list
DisplayNames(list) == { list[i].DisplayName : i \in 1..Len(list) }

\* C16: an editor that was not selected has no existence query, no skipped
\* notice, no step and no command; a Disabled package is not in the model's
\* list, is never passed to downloadAndInstall, has no brew invocation and,
\* unless an enabled package has the same display name, no printed line.
C16_DisabledExcluded ==
    /\ \A e \in EditorEntries :
          e.name # choice =>
              /\ e.list \notin Range(queries)
              /\ Printed(alreadyInstalled(e.name)) = 0
              /\ StepsWith(e.install) = {}
              /\ \A c \in StepsInFlight : c.s.args # e.install
    /\ \A i \in 1..Len(pkgInput) :
          pkgInput[i].Disabled =>
              /\ pkgInput[i] \notin Range(packages)
              /\ pkgInput[i] \notin Range(pkgLaunched)
              /\ \A c \in DownloadsInFlight : c.pkg # pkgInput[i]
              /\ \A j \in 1..Len(pkgExecs) : pkgExecs[j].pkg # pkgInput[i]
              /\ pkgInput[i].DisplayName \notin DisplayNames(packages) =>
                    \A j \in 1..Len(pkgPrinted) : ~Contains(pkgPrinted[j], pkgInput[i].DisplayName)

C16_Witness ==
    /\ pkgPc = "exited"
    /\ pkgDone
    /\ Len(pkgInput) = 2
    /\ pkgInput[1].Disabled
    /\ Len(pkgPrinted) = 1

\* the brew names the setup command installs as casks
CaskNames == Range(caskInstallations) \cup {"visual-studio-code", "cursor"}

\* the argument vector carries the cask flag iff its package is a cask
SetupScopeOK(args) ==
    LET name == args[Len(args)] IN
    IF name \in CaskNames THEN args = <<args[1], "--cask", name>> ELSE args = <<args[1], name>>

\* C18: in the setup command every brew list query and every brew install
\* step carries --cask iff the entry is a cask; in the package-manager model
\* every brew invocation carries --cask iff the package's Kind is cask.
C18_SameScope ==
    /\ \A i \in 1..Len(steps) :
          steps[i].command = "brew" => steps[i].args[1] = "install" /\ SetupScopeOK(steps[i].args)
    /\ \A i \in 1..Len(queries) :
          queries[i][1] = "list" => SetupScopeOK(queries[i])
    /\ \A j \in 1..Len(pkgExecs) :
          LET x == pkgExecs[j] IN
          /\ x.args[1] \in {"list", "install"}
          /\ x.args[Len(x.args)] = x.pkg.BrewName
          /\ IF x.pkg.Kind = "cask"
             THEN Len(x.args) = 3 /\ x.args[2] = "--cask"
             ELSE Len(x.args) = 2

C18_Witness ==
    /\ Len(pkgExecs) >= 4
    /\ pkgExecs[1].pkg.Kind = "cask"
    /\ pkgExecs[2].args[1] = "install"

\* C20: once a cancellation key has been processed, no package is passed to
\* downloadAndInstall any more.
C20_NoLaunchAfterCancel ==
    [][exitFlag => pkgLaunched' = pkgLaunched]_vars

\* C21: no step is launched twice; every launched step has exactly one
\* external process, still running or already ended, made of the command
\* name and argument vector of its step; the processes that ended are those
\* of the completions Update processed, failed ones included.
C21_NoRetry ==
    /\ \A i, j \in 1..Len(launched) : i # j => launched[i] # launched[j]
    /\ Len(execs) + InFlight = Len(launched)
    /\ Len(execs) = Len(completed)
    /\ \A j \in 1..Len(execs) :
          /\ execs[j].stepIndex = launched[j]
          /\ execs[j].stepIndex = completed[j].stepIndex
          /\ execs[j].command = steps[launched[j] + 1].command
          /\ execs[j].args = steps[launched[j] + 1].args
    /\ \A c \in StepsInFlight :
          /\ cmds[c] = 1
          /\ c.stepIndex = launched[Len(launched)]
          /\ c.s = steps[c.stepIndex + 1]

C21_Witness ==
    /\ ~err.isNil
    /\ Len(execs) = 3
    /\ Len(steps) >= 5
    /\ pc = "exited"

\* C22: once an installErrorMsg has been handed to Update the run is ending:
\* while the program is still in its event loop a quit is on its way, so the
\* model does not stay running with nothing in flight to complete it.
C22_InstallFailureEndsRun ==
    (pkgFailures # <<>> /\ pkgPc = "tea") =>
        \/ BagIn(pkgQuitCmd, pkgCmds)
        \/ \E c \in BagToSet(pkgCmds) : c.kind = "printfThenQuit"

\* C23: done and a recorded error never hold together, and an error is
\* recorded exactly when Update has processed a completion carrying an error,
\* the error recorded being the one that completion carried.
C23_ErrorOnlyWhenFailed ==
    /\ ~(done /\ ~err.isNil)
    /\ ~err.isNil <=> (\E j \in 1..Len(completed) : ~completed[j].ok)
    /\ ~err.isNil =>
          /\ ~completed[Len(completed)].ok
          /\ err = commandError(steps[completed[Len(completed)].stepIndex + 1],
                                completed[Len(completed)].stepIndex)

C23_Witness ==
    /\ ~err.isNil
    /\ Len(completed) = 1
    /\ lastEvent = "other"
    /\ pc = "tea"

\* C24: once the model is done or has an error recorded, no step of the run
\* (a tick, a completion, a key, the quit) changes currentStep, done or the
\* error, nothing is launched and no step command is in flight.
C24_TerminalStatesStay ==
    [][(done \/ ~err.isNil) =>
          /\ currentStep' = currentStep
          /\ done' = done
          /\ err' = err
          /\ steps' = steps
          /\ launched' = launched
          /\ InFlight = 0
          /\ InFlight' = 0]_vars

C24_Witness ==
    /\ done
    /\ lastEvent = "key"
    /\ pc = "tea"
    /\ Len(steps) >= 1

\* the number of completions without error among the first n processed
RECURSIVE OkCompletions(_)
OkCompletions(n) ==
    IF n = 0 THEN 0 ELSE OkCompletions(n - 1) + (IF completed[n].ok THEN 1 ELSE 0)

\* the steps launched and the status are those the outcomes of the
\* completions processed so far determine, whatever the ticks in between
C25_OutcomeFromCompletions ==
    LET ok == OkCompletions(Len(completed))
        n == IF ~Started \/ steps = <<>> THEN 0
             ELSE IF ok + 1 <= Len(steps) THEN ok + 1 ELSE Len(steps)
    IN
    /\ launched = [k \in 1..n |-> k - 1]
    /\ currentStep = IF ok < Len(completed) THEN Len(completed) - 1 ELSE ok
    /\ done <=> (Started /\ ok = Len(steps))
    /\ ~err.isNil <=> ok < Len(completed)

\* this step hands a spinner tick to Update
C25_TickStep == pc = "tea" /\ pc' = "tea" /\ lastEvent' = "tick" /\ BagIn(tickCmd, cmds)

\* C25: a tick leaves steps, currentStep, done and the error unchanged,
\* launches nothing and leaves the step in flight alone; the steps launched
\* and the status depend on the completions processed only, so they are the
\* same under every interleaving of ticks.
C25_TickIsFrameOnly ==
    /\ []C25_OutcomeFromCompletions
    /\ [][C25_TickStep =>
            /\ steps' = steps
            /\ currentStep' = currentStep
            /\ done' = done
            /\ err' = err
            /\ launched' = launched
            /\ completed' = completed
            /\ StepsInFlight' = StepsInFlight]_vars

C25_Witness ==
    /\ lastEvent = "tick"
    /\ frame = 3
    /\ Len(completed) = 2
    /\ InFlight = 1
    /\ err.isNil

\* C26: at most as many completions are processed as the plan has steps and,
\* when every launched step command delivers its completion, a run whose
\* Init ran over a non-empty plan reaches done or a recorded error.
C26_RunTerminates ==
    /\ [](Len(completed) <= Len(steps))
    /\ ((pc = "tea" /\ steps # <<>>) ~> (done \/ ~err.isNil))

C26_Witness ==
    /\ done
    /\ Len(completed) = Len(steps)
    /\ Len(steps) = 6
    /\ lastEvent = "result"

\* the position of an element in a sequence that holds it
IndexOf(seq, x) == CHOOSE k \in 1..Len(seq) : seq[k] = x

\* the positions of the plan that install a formula of the formula catalog
FormulaPositions ==
    { i \in 1..Len(steps) :
        /\ steps[i].command = "brew"
        /\ Len(steps[i].args) = 2
        /\ steps[i].args[1] = "install"
        /\ steps[i].args[2] \in Range(normalInstallations) }

\* the positions of the plan that install a cask of the cask catalog
CaskPositions ==
    { i \in 1..Len(steps) :
        /\ steps[i].command = "brew"
        /\ Len(steps[i].args) = 3
        /\ steps[i].args[1] = "install"
        /\ steps[i].args[2] = "--cask"
        /\ steps[i].args[3] \in Range(caskInstallations) }

\* C27: every bootstrap step comes before every other step of the plan; the
\* formula steps stand in the order of normalInstallations and the cask steps
\* in the order of caskInstallations, none twice.
C27_PlanOrder ==
    PlanBuilt =>
        /\ \A i \in BootstrapPositions, j \in (1..Len(steps)) \ BootstrapPositions : i < j
        /\ \A i, j \in FormulaPositions :
              i < j => IndexOf(normalInstallations, steps[i].args[2])
                          < IndexOf(normalInstallations, steps[j].args[2])
        /\ \A i, j \in CaskPositions :
              i < j => IndexOf(caskInstallations, steps[i].args[3])
                          < IndexOf(caskInstallations, steps[j].args[3])

C27_Witness ==
    /\ PlanBuilt
    /\ choice = "neovim"
    /\ BootstrapPositions = {1, 2, 3}
    /\ Cardinality(FormulaPositions) = 2
    /\ Cardinality(CaskPositions) = 4
    /\ pc = "program"

\* C28: the process of a step carries NONINTERACTIVE=1 in its environment
\* iff the step is the bootstrap-install step (the first of the three
\* bootstrap steps), and nothing else is ever added to the environment.
C28_NonInteractiveBootstrapOnly ==
    \A j \in 1..Len(execs) :
        /\ execs[j].env \in {<<>>, <<"NONINTERACTIVE=1">>}
        /\ execs[j].env = <<"NONINTERACTIVE=1">>
              <=> steps[execs[j].stepIndex + 1] = bootstrapSteps[1]

C28_Witness ==
    /\ Len(execs) = 5
    /\ execs[1].env = <<"NONINTERACTIVE=1">>
    /\ execs[2].env = <<>>
    /\ execs[5].command = "brew"
    /\ colorOn

\* C29: whenever the event loop can render, View shows the error message iff
\* an error is recorded, the success message iff the model is done, and
\* otherwise the description of the step at currentStep, which is then a
\* valid index of the plan; View never indexes the plan past its end.
C29_ViewShowsStatus ==
    pc = "tea" =>
        /\ View.shows \in {"error", "success", "step"}
        /\ View.shows = "error" <=> ~err.isNil
        /\ View.shows = "success" <=> done
        /\ View.shows = "step" <=> (~done /\ err.isNil)
        /\ View.shows = "step" =>
              /\ currentStep < Len(steps)
              /\ \E i \in 1..Len(View.text) :
                    SubSeq(View.text, i, i + Len(steps[currentStep + 1].description) - 1)
                        = steps[currentStep + 1].description

C29_Witness ==
    /\ pc = "tea"
    /\ steps = <<>>
    /\ View.shows = "success"
    /\ lastEvent = "none"

\* C30: when Update processes the completion (installed or skipped) of the
\* package at index i and i is not the last index, index becomes i+1 and the
\* one package passed to downloadAndInstall is the package at index i+1,
\* the one View then names as current.
C30_NextPackageLaunched ==
    [][(Len(pkgCompleted') = Len(pkgCompleted) + 1 /\ pkgIndex < Len(packages) - 1) =>
          /\ pkgIndex' = pkgIndex + 1
          /\ pkgLaunched' = Append(pkgLaunched, packages[pkgIndex' + 1])
          /\ \A c \in DownloadsInFlight' : c.pkg = packages[pkgIndex' + 1]]_vars

\* C31: when the model is done, the packages passed to downloadAndInstall
\* are the packages of the list, each once and in order, each has one
\* completion processed, and the completion processed at index i is the one
\* of the package at index i, the package its notice names.
C31_DoneMeansAllInstalled ==
    pkgDone =>
        /\ pkgLaunched = packages
        /\ Len(pkgCompleted) = Len(packages)
        /\ \A j \in 1..Len(pkgCompleted) :
              /\ pkgCompleted[j].at = j - 1
              /\ pkgCompleted[j].name = packages[j].BrewName

\* C32: when every package handed to InitialModelPkgManager is Disabled, the
\* started model is done, nothing was passed to downloadAndInstall and no
\* index outside the (empty) list was read.
C32_EmptyListCompletes ==
    (pkgInput # <<>> /\ (\A i \in 1..Len(pkgInput) : pkgInput[i].Disabled) /\ pkgPc # "new") =>
        /\ pkgPc # "panic"
        /\ pkgDone
        /\ pkgLaunched = <<>>

\* the line is printed by SetupCmd.Run when the editor list was left without
\* a choice
NoEditorLine == <<"No se seleccionó ningún editor, finalizando.">>

\* C34: a run whose editor selection ended without a choice has no steps,
\* made no brew lookup and no existence query, launched nothing and never
\* started the setup program.
C34_NoChoiceNoPlan ==
    /\ choice = "" =>
          /\ steps = <<>>
          /\ queries = <<>>
          /\ launched = <<>>
          /\ execs = <<>>
          /\ cmds = EmptyBag
          /\ pc \notin {"program", "tea"}
    /\ NoEditorLine \in Range(printed) =>
          /\ choice = ""
          /\ pc = "exited"
          /\ printed = <<NoEditorLine>>

C34_Witness ==
    /\ pc = "exited"
    /\ choice = ""
    /\ userOK
    /\ brewPresent
    /\ printed = <<NoEditorLine>>

\* the positions of the plan that install an editor
EditorPositions ==
    StepsWith(<<"install", "neovim">>)
        \cup StepsWith(<<"install", "--cask", "visual-studio-code">>)
        \cup StepsWith(<<"install", "--cask", "cursor">>)

\* C35: the plan holds at most one editor install step, and a step for an
\* editor only when that editor is the choice.
C35_OnlySelectedEditor ==
    PlanBuilt =>
        /\ Cardinality(EditorPositions) <= 1
        /\ StepsWith(<<"install", "neovim">>) # {} => choice = "neovim"
        /\ StepsWith(<<"install", "--cask", "visual-studio-code">>) # {} => choice = "vscode"
        /\ StepsWith(<<"install", "--cask", "cursor">>) # {} => choice = "cursor.ai"

C35_Witness ==
    /\ PlanBuilt
    /\ choice = "cursor.ai"
    /\ brewPresent
    /\ Cardinality(EditorPositions) = 1
    /\ <<"list", "neovim">> \notin listOK
    /\ <<"list", "--cask", "visual-studio-code">> \notin listOK

\* C36: over a non-empty list the index is a valid index of the list; it
\* never decreases and grows only by one, in a step that processes an
\* installed or skipped completion.
C36_IndexInRange ==
    /\ [](packages # <<>> => (0 <= pkgIndex /\ pkgIndex < Len(packages)))
    /\ [][/\ pkgIndex' >= pkgIndex
          /\ pkgIndex' # pkgIndex =>
                /\ pkgIndex' = pkgIndex + 1
                /\ Len(pkgCompleted') = Len(pkgCompleted) + 1
                /\ pkgCompleted'[Len(pkgCompleted')].kind \in {"installed", "skipped"}]_vars

C36_Witness ==
    /\ Len(packages) = 2
    /\ pkgIndex = 1
    /\ pkgDone
    /\ pkgFrame = 2
    /\ size = <<80, 24>>

\* C39: every completion Update processed carried the index currentStep had
\* when it was processed.
C39_CompletionIsCurrentStep ==
    \A j \in 1..Len(completed) : completed[j].stepIndex = completed[j].at

C39_Witness ==
    /\ Len(completed) = 4
    /\ completed[4].stepIndex = 3
    /\ ~completed[4].ok
    /\ frame = 1

\* C33: once Project.Run has ended, it returned an error (it did not panic
\* and did not return nil) if the system is not darwin or the user cannot be
\* resolved; if it returned nil the system is darwin, the user was resolved
\* and Username and HomeDir are those of that user.
C33_RunReturnsError ==
    projPc \in {"returned", "panic"} =>
        /\ (goos # "darwin" \/ ~userOK) => (projPc = "returned" /\ projErr # "")
        /\ (projPc = "returned" /\ projErr = "") =>
              /\ goos = "darwin"
              /\ userOK
              /\ Username = osUser.Username
              /\ HomeDir = osUser.HomeDir

PhaseOrder ==
    << <<"typing", 0>>, <<"waiting", 0>>, <<"typing", 1>>, <<"waitingClear", 1>>, <<"cleared", 1>> >>

\* the phases so far are a prefix of the order, and the indexes are valid
C38_PhasesInOrder ==
    animPc # "idle" =>
        /\ Len(phases) \in 1..Len(PhaseOrder)
        /\ phases = SubSeq(PhaseOrder, 1, Len(phases))
        /\ phases[Len(phases)] = <<phase, currentMessage>>
        /\ typewriterIndex \in 0..Len(messages[currentMessage + 1])
        /\ currentFrame \in 0..(Len(flagFrames) - 1)

\* C38: the phases are visited in the order typing 0, waiting, typing 1,
\* waitingClear, cleared; typewriterIndex is at most the length of the
\* current message and currentFrame is a valid frame index; once cleared,
\* no flag tick and no text tick is scheduled again, the flag no longer
\* moves, and the text tick that fires leaves a quit behind.
C38_AnimationOrder ==
    /\ []C38_PhasesInOrder
    /\ [][phase = "cleared" =>
            /\ phase' = "cleared"
            /\ currentFrame' = currentFrame
            /\ CopiesIn(tickFlagCmd, animCmds') <= CopiesIn(tickFlagCmd, animCmds)
            /\ CopiesIn(tickTextCmd, animCmds') <= CopiesIn(tickTextCmd, animCmds)
            /\ CopiesIn(tickTextCmd, animCmds') < CopiesIn(tickTextCmd, animCmds) =>
                  /\ BagIn(animQuitCmd, animCmds')
                  /\ ~BagIn(tickTextCmd, animCmds')]_vars

C38_Witness ==
    /\ animPc = "exited"
    /\ phase = "cleared"
    /\ ~animExit
    /\ phases = PhaseOrder
    /\ currentFrame = 3
    /\ animCmds = EmptyBag

====
